---- MODULE Spec2Model ----
(***************************************************************************)
(* A model of conrod's per-widget input routing (src/input/widget.rs):     *)
(* the global input store with its start-of-frame and current capture      *)
(* state, Widget::mouse, Widget::events and the Events iterator, and the   *)
(* Clicks / Drags / Texts / Scrolls filters layered over it; of the        *)
(* graphics backend (src/backend/graphics.rs): crop_context and the        *)
(* depth-ordered traversal draw_from_graph with its stack of cropped       *)
(* contexts; and of XYPad::update (src/widget/xy_pad.rs).                  *)
(***************************************************************************)
EXTENDS Integers, Sequences, FiniteSets, TLC

\* Most events pushed into the global store over the life of the model.
MaxEvents == 2

\* Rectangles handed to crop_context start at -MaxCoord..MaxCoord on each axis
\* and are 0, 2, .., 2 * MaxHalf wide and high.
MaxCoord == 3
MaxHalf == 1

\* The widget graph has the nodes 0 .. MaxNode, node 0 being the window.
MaxNode == 3

\* Most points of a polygon or point path, and most lines of a text.
MaxPoints == 2

\* The XYPad's value ranges over 0 .. MaxValue on each axis.
MaxValue == 2

----------------------------------------------------------------------------
(* Values *)

\* Option<T>: None is the empty set, Some(x) the singleton.
NoneOpt == {}
Some(x) == {x}

\* widget::Index of the two widgets under observation.
Widgets == {1, 2}

\* Option<widget::Index> carried by the per-widget Ui events.
Targets == {NoneOpt} \cup {Some(w) : w \in Widgets}

\* Rect: a Range {start, end} per axis.
RectOf(w) ==
    IF w = 1 THEN [x |-> [start |-> 0, end |-> 4], y |-> [start |-> 2, end |-> 6]]
             ELSE [x |-> [start |-> -6, end |-> -2], y |-> [start |-> -2, end |-> 0]]

\* Rect::xy: the middle of each axis' range.
Rect_xy(rect) ==
    << rect.x.start + (rect.x.end - rect.x.start) \div 2,
       rect.y.start + (rect.y.end - rect.y.start) \div 2 >>

\* utils::vec2_sub
vec2_sub(a, b) == << a[1] - b[1], a[2] - b[2] >>

\* Payloads of the global stream, in window coordinates.
MouseButtons == {"Left", "Middle", "Right"}
Dims == { <<4, 3>>, <<8, 6>> }
TextPayloads == { [string |-> "a"] }
MovePayloads == { [to |-> <<3, 4>>] }
ButtonPayloads ==
    { [button |-> [dev |-> "Mouse", button |-> "Left", xy |-> <<3, 4>>]],
      [button |-> [dev |-> "Keyboard", key |-> "A"]] }
ClickPayloads == { [button |-> b, xy |-> <<3, 4>>] : b \in MouseButtons }
DoubleClickPayloads == { [button |-> "Left", xy |-> <<1, -2>>] }
DragPayloads == { [button |-> b, from |-> <<3, 4>>, to |-> <<5, 1>>] : b \in MouseButtons }
ScrollPayloads == { [x |-> 0, y |-> -3] }

CaptureKinds == { "WidgetCapturesMouse", "WidgetUncapturesMouse",
                  "WidgetCapturesKeyboard", "WidgetUncapturesKeyboard" }

\* event::Ui, the variants Events::next matches on.
UiEvent ==
    { [kind |-> k, idx |-> w] : k \in CaptureKinds, w \in Widgets }
    \cup { [kind |-> "WindowResized", dim |-> d] : d \in Dims }
    \cup { [kind |-> "Text", idx |-> t, payload |-> p] : t \in Targets, p \in TextPayloads }
    \cup { [kind |-> "Move", idx |-> t, payload |-> p] : t \in Targets, p \in MovePayloads }
    \cup { [kind |-> k, idx |-> t, payload |-> p] :
             k \in {"Press", "Release"}, t \in Targets, p \in ButtonPayloads }
    \cup { [kind |-> "Click", idx |-> t, payload |-> p] : t \in Targets, p \in ClickPayloads }
    \cup { [kind |-> "DoubleClick", idx |-> t, payload |-> p] :
             t \in Targets, p \in DoubleClickPayloads }
    \cup { [kind |-> "Drag", idx |-> t, payload |-> p] : t \in Targets, p \in DragPayloads }
    \cup { [kind |-> "Scroll", idx |-> t, payload |-> p] : t \in Targets, p \in ScrollPayloads }

----------------------------------------------------------------------------
(* State *)

VARIABLES
    start,      \* input::Global.start: the capture state at the start of the frame
    current,    \* input::Global.current: the capture state now
    events,     \* input::Global.events: the frame's Ui events, oldest first
    pushed,     \* events pushed since construction
    iter,       \* the live iterator borrowed from the global store, if any
    out,        \* the items the live iterator has yielded, in order
    at,         \* for each item of out, the cursor position next() returned at
    ended,      \* the live iterator has returned None
    mouseQ,     \* the latest Widget::mouse query and its result
    crop,       \* the latest call of crop_context: its context, rectangle and result
    graph,      \* the widget graph draw_from_graph reads
    depth_order,\* the depth order draw_from_graph walks
    draw,       \* the traversal: its position, crop stack, base context and log
    pad         \* an XYPad, the mouse it reads and the reactions of its last update

inputVars == << start, current, events, pushed, iter, out, at, ended, mouseQ >>
cropVars == << crop >>
drawVars == << graph, depth_order, draw >>
padVars == << pad >>

vars == << inputVars, cropVars, drawVars, padVars >>

\* input::State::new(): nothing captures either device.
NewState == [widget_capturing_mouse |-> NoneOpt, widget_capturing_keyboard |-> NoneOpt]

NoIter == [kind |-> "none"]
NoQuery == [asked |-> FALSE]

\* The parts of the model a specification leaves alone.
NoCrop == [pc |-> "idle"]
NoGraph == << >>
NoDraw == [pc |-> "idle"]
NoPad == [pc |-> "idle"]

CropIdle == crop = NoCrop
DrawIdle == graph = NoGraph /\ depth_order = << >> /\ draw = NoDraw
PadIdle == pad = NoPad

InputOnly == UNCHANGED << cropVars, drawVars, padVars >>

InitInput ==
    /\ start = NewState
    /\ current = NewState
    /\ events = << >>
    /\ pushed = 0
    /\ iter = NoIter
    /\ out = << >>
    /\ at = << >>
    /\ ended = FALSE
    /\ mouseQ = NoQuery

Init == InitInput /\ CropIdle /\ DrawIdle /\ PadIdle

----------------------------------------------------------------------------
(* The global store *)

\* The capture state after a Ui event: only capture and uncapture events change it.
ApplyCapture(s, e) ==
    CASE e.kind = "WidgetCapturesMouse" ->
           [s EXCEPT !.widget_capturing_mouse = Some(e.idx)]
      [] e.kind = "WidgetUncapturesMouse" ->
           IF s.widget_capturing_mouse = Some(e.idx)
           THEN [s EXCEPT !.widget_capturing_mouse = NoneOpt] ELSE s
      [] e.kind = "WidgetCapturesKeyboard" ->
           [s EXCEPT !.widget_capturing_keyboard = Some(e.idx)]
      [] e.kind = "WidgetUncapturesKeyboard" ->
           IF s.widget_capturing_keyboard = Some(e.idx)
           THEN [s EXCEPT !.widget_capturing_keyboard = NoneOpt] ELSE s
      [] OTHER -> s

\* An event arrives: it joins the frame's stream and the current state follows it.
\* The store is mutably borrowed, so no iterator over it is alive.
PushEvent(e) ==
    /\ iter = NoIter
    /\ pushed < MaxEvents
    /\ events' = Append(events, e)
    /\ current' = ApplyCapture(current, e)
    /\ pushed' = pushed + 1
    /\ mouseQ' = NoQuery
    /\ UNCHANGED << start, iter, out, at, ended >>
    /\ InputOnly

\* The frame ends: the stream is cleared and the current state becomes the next
\* frame's start state.
NewFrame ==
    /\ iter = NoIter
    /\ events # << >>
    /\ start' = current
    /\ events' = << >>
    /\ mouseQ' = NoQuery
    /\ UNCHANGED << current, pushed, iter, out, at, ended >>
    /\ InputOnly

----------------------------------------------------------------------------
(* Widget *)

\* Widget::for_widget(idx, rect, global)
for_widget(w) == [idx |-> w, rect |-> RectOf(w)]

\* Widget::mouse reading the start-of-frame state events() reads.
Widget_mouse_FromStart(w) ==
    IF start.widget_capturing_mouse = Some(for_widget(w).idx)
    THEN Some([rect |-> for_widget(w).rect])
    ELSE NoneOpt

\* Widget::mouse testing only that some widget captures the mouse.
Widget_mouse_AnyCaptor(w) ==
    IF current.widget_capturing_mouse # NoneOpt
    THEN Some([rect |-> for_widget(w).rect])
    ELSE NoneOpt

\* Widget::mouse: a view only for the widget that captures the mouse now.
Widget_mouse(w) ==
    IF current.widget_capturing_mouse = Some(for_widget(w).idx)
    THEN Some([rect |-> for_widget(w).rect])
    ELSE NoneOpt

\* Widget::events
Widget_events(w) ==
    [ pos |-> 0,
      capturing_keyboard |-> start.widget_capturing_keyboard,
      capturing_mouse |-> start.widget_capturing_mouse,
      rect |-> for_widget(w).rect,
      idx |-> for_widget(w).idx ]

----------------------------------------------------------------------------
(* event::*::relative_to: the payload with its positions made relative to xy *)

\* Press::relative_to and Release::relative_to: a mouse button's position moves,
\* a keyboard button has none.
Button_relative_to(p, xy) ==
    IF p.button.dev = "Mouse"
    THEN [p EXCEPT !.button.xy = vec2_sub(@, xy)]
    ELSE p

\* Click::relative_to and DoubleClick::relative_to
Click_relative_to(p, xy) == [p EXCEPT !.xy = vec2_sub(@, xy)]

\* Drag::relative_to: both endpoints move.
Drag_relative_to(p, xy) == [p EXCEPT !.from = vec2_sub(@, xy), !.to = vec2_sub(@, xy)]

----------------------------------------------------------------------------
(* Events::next, one operator per match arm.  Each takes the iterator after   *)
(* ui_events.next() moved its cursor and gives the iterator the arm leaves    *)
(* and the item it returns: Some(item), or None when the loop goes on.        *)

Arm(e, item) == [events |-> e, item |-> item]

OnWidgetCapturesMouse(e, idx) ==
    LET e2 == [e EXCEPT !.capturing_mouse = Some(idx)]
    IN  IF idx = e.idx THEN Arm(e2, Some([kind |-> "CapturesMouse"]))
                       ELSE Arm(e2, NoneOpt)

\* The arm clearing the tracked captor whichever widget lets go.
OnWidgetUncapturesMouse_AlwaysClears(e, idx) ==
    LET e2 == [e EXCEPT !.capturing_mouse = NoneOpt]
    IN  IF idx = e.idx THEN Arm(e2, Some([kind |-> "UncapturesMouse"]))
                       ELSE Arm(e2, NoneOpt)

OnWidgetUncapturesMouse(e, idx) ==
    LET e2 == IF Some(idx) = e.capturing_mouse
              THEN [e EXCEPT !.capturing_mouse = NoneOpt] ELSE e
    IN  IF idx = e.idx THEN Arm(e2, Some([kind |-> "UncapturesMouse"]))
                       ELSE Arm(e2, NoneOpt)

\* The arm without its test of the index.
OnWidgetCapturesKeyboard_ToAll(e, idx) ==
    Arm([e EXCEPT !.capturing_keyboard = Some(idx)], Some([kind |-> "CapturesKeyboard"]))

OnWidgetCapturesKeyboard(e, idx) ==
    LET e2 == [e EXCEPT !.capturing_keyboard = Some(idx)]
    IN  IF idx = e.idx THEN Arm(e2, Some([kind |-> "CapturesKeyboard"]))
                       ELSE Arm(e2, NoneOpt)

OnWidgetUncapturesKeyboard(e, idx) ==
    LET e2 == IF Some(idx) = e.capturing_keyboard
              THEN [e EXCEPT !.capturing_keyboard = NoneOpt] ELSE e
    IN  IF idx = e.idx THEN Arm(e2, Some([kind |-> "UncapturesKeyboard"]))
                       ELSE Arm(e2, NoneOpt)

\* The arm gated on the tracked mouse capture.
OnWindowResized_IfCapturing(e, dim) ==
    IF e.capturing_mouse = Some(e.idx)
    THEN Arm(e, Some([kind |-> "WindowResized", dim |-> dim]))
    ELSE Arm(e, NoneOpt)

OnWindowResized(e, dim) == Arm(e, Some([kind |-> "WindowResized", dim |-> dim]))

OnText(e, idx, text) ==
    IF idx = Some(e.idx) THEN Arm(e, Some([kind |-> "Text", payload |-> text]))
                         ELSE Arm(e, NoneOpt)

OnMove(e, idx, move_) ==
    IF idx = Some(e.idx) THEN Arm(e, Some([kind |-> "Move", payload |-> move_]))
                         ELSE Arm(e, NoneOpt)

OnPress(e, idx, press) ==
    IF idx = Some(e.idx)
    THEN Arm(e, Some([kind |-> "Press",
                      payload |-> Button_relative_to(press, Rect_xy(e.rect))]))
    ELSE Arm(e, NoneOpt)

\* The arm without relative_to.
OnRelease_Absolute(e, idx, release) ==
    IF idx = Some(e.idx) THEN Arm(e, Some([kind |-> "Release", payload |-> release]))
                         ELSE Arm(e, NoneOpt)

OnRelease(e, idx, release) ==
    IF idx = Some(e.idx)
    THEN Arm(e, Some([kind |-> "Release",
                      payload |-> Button_relative_to(release, Rect_xy(e.rect))]))
    ELSE Arm(e, NoneOpt)

\* The arm delivering a click only to the widget tracked as capturing the mouse.
OnClick_IfCapturingMouse(e, idx, click) ==
    IF idx = Some(e.idx) /\ e.capturing_mouse = Some(e.idx)
    THEN Arm(e, Some([kind |-> "Click",
                      payload |-> Click_relative_to(click, Rect_xy(e.rect))]))
    ELSE Arm(e, NoneOpt)

OnClick(e, idx, click) ==
    IF idx = Some(e.idx)
    THEN Arm(e, Some([kind |-> "Click",
                      payload |-> Click_relative_to(click, Rect_xy(e.rect))]))
    ELSE Arm(e, NoneOpt)

OnDoubleClick(e, idx, double_click) ==
    IF idx = Some(e.idx)
    THEN Arm(e, Some([kind |-> "DoubleClick",
                      payload |-> Click_relative_to(double_click, Rect_xy(e.rect))]))
    ELSE Arm(e, NoneOpt)

OnDrag(e, idx, drag) ==
    IF idx = Some(e.idx)
    THEN Arm(e, Some([kind |-> "Drag",
                      payload |-> Drag_relative_to(drag, Rect_xy(e.rect))]))
    ELSE Arm(e, NoneOpt)

\* The arm with a guard that only asks for some target.
OnScroll_Untargeted(e, idx, scroll) ==
    IF idx # NoneOpt THEN Arm(e, Some([kind |-> "Scroll", payload |-> scroll]))
                     ELSE Arm(e, NoneOpt)

OnScroll(e, idx, scroll) ==
    IF idx = Some(e.idx) THEN Arm(e, Some([kind |-> "Scroll", payload |-> scroll]))
                         ELSE Arm(e, NoneOpt)

\* match *ui_event { ... }
Events_match(e, ui) ==
    CASE ui.kind = "WidgetCapturesMouse" -> OnWidgetCapturesMouse(e, ui.idx)
      [] ui.kind = "WidgetUncapturesMouse" -> OnWidgetUncapturesMouse(e, ui.idx)
      [] ui.kind = "WidgetCapturesKeyboard" -> OnWidgetCapturesKeyboard(e, ui.idx)
      [] ui.kind = "WidgetUncapturesKeyboard" -> OnWidgetUncapturesKeyboard(e, ui.idx)
      [] ui.kind = "WindowResized" -> OnWindowResized(e, ui.dim)
      [] ui.kind = "Text" -> OnText(e, ui.idx, ui.payload)
      [] ui.kind = "Move" -> OnMove(e, ui.idx, ui.payload)
      [] ui.kind = "Press" -> OnPress(e, ui.idx, ui.payload)
      [] ui.kind = "Release" -> OnRelease(e, ui.idx, ui.payload)
      [] ui.kind = "Click" -> OnClick(e, ui.idx, ui.payload)
      [] ui.kind = "DoubleClick" -> OnDoubleClick(e, ui.idx, ui.payload)
      [] ui.kind = "Drag" -> OnDrag(e, ui.idx, ui.payload)
      [] ui.kind = "Scroll" -> OnScroll(e, ui.idx, ui.payload)
      [] OTHER -> Arm(e, NoneOpt)

\* Events::next returning None at the first event no arm returns on.
Events_next_StopsAtSkip(stream, e) ==
    IF e.pos >= Len(stream)
    THEN Arm(e, NoneOpt)
    ELSE Events_match([e EXCEPT !.pos = @ + 1], stream[e.pos + 1])

\* Events::next starting over from the first event once the stream is exhausted.
RECURSIVE Events_next_Rewinds(_, _)
Events_next_Rewinds(stream, e) ==
    IF e.pos >= Len(stream)
    THEN Arm([e EXCEPT !.pos = 0], NoneOpt)
    ELSE LET r == Events_match([e EXCEPT !.pos = @ + 1], stream[e.pos + 1])
         IN  IF r.item # NoneOpt THEN r ELSE Events_next_Rewinds(stream, r.events)

\* Events::next over the frame's stream: pull Ui events until an arm returns an
\* item or the stream is exhausted.
RECURSIVE Events_next(_, _)
Events_next(stream, e) ==
    IF e.pos >= Len(stream)
    THEN Arm(e, NoneOpt)
    ELSE LET r == Events_match([e EXCEPT !.pos = @ + 1], stream[e.pos + 1])
         IN  IF r.item # NoneOpt THEN r ELSE Events_next(stream, r.events)

----------------------------------------------------------------------------
(* The filters layered over Events: each pulls from its inner Events until *)
(* an item of its variant arrives or the inner iterator ends.               *)

Filtered(e, item) == [events |-> e, item |-> item]

\* Clicks::next returning None at the first item that is not a click.
Clicks_next_StopsAtOther(stream, e) ==
    LET r == Events_next(stream, e)
    IN  IF r.item = NoneOpt THEN Filtered(r.events, NoneOpt)
        ELSE LET event == CHOOSE x \in r.item : TRUE
             IN  IF event.kind = "Click" THEN Filtered(r.events, Some(event.payload))
                 ELSE Filtered(r.events, NoneOpt)

\* Clicks::next inferring a click from the release of a mouse button.
RECURSIVE Clicks_next_FromRelease(_, _)
Clicks_next_FromRelease(stream, e) ==
    LET r == Events_next(stream, e)
    IN  IF r.item = NoneOpt THEN Filtered(r.events, NoneOpt)
        ELSE LET event == CHOOSE x \in r.item : TRUE
             IN  CASE event.kind = "Click" -> Filtered(r.events, Some(event.payload))
                   [] event.kind = "Release" /\ event.payload.button.dev = "Mouse" ->
                        Filtered(r.events, Some([button |-> event.payload.button.button,
                                                 xy |-> event.payload.button.xy]))
                   [] OTHER -> Clicks_next_FromRelease(stream, r.events)

\* Clicks::next
RECURSIVE Clicks_next(_, _)
Clicks_next(stream, e) ==
    LET r == Events_next(stream, e)
    IN  IF r.item = NoneOpt THEN Filtered(r.events, NoneOpt)
        ELSE LET event == CHOOSE x \in r.item : TRUE
             IN  IF event.kind = "Click" THEN Filtered(r.events, Some(event.payload))
                 ELSE Clicks_next(stream, r.events)

\* Drags::next
RECURSIVE Drags_next(_, _)
Drags_next(stream, e) ==
    LET r == Events_next(stream, e)
    IN  IF r.item = NoneOpt THEN Filtered(r.events, NoneOpt)
        ELSE LET event == CHOOSE x \in r.item : TRUE
             IN  IF event.kind = "Drag" THEN Filtered(r.events, Some(event.payload))
                 ELSE Drags_next(stream, r.events)

\* Texts::next
RECURSIVE Texts_next(_, _)
Texts_next(stream, e) ==
    LET r == Events_next(stream, e)
    IN  IF r.item = NoneOpt THEN Filtered(r.events, NoneOpt)
        ELSE LET event == CHOOSE x \in r.item : TRUE
             IN  IF event.kind = "Text" THEN Filtered(r.events, Some(event.payload))
                 ELSE Texts_next(stream, r.events)

\* Scrolls::next
RECURSIVE Scrolls_next(_, _)
Scrolls_next(stream, e) ==
    LET r == Events_next(stream, e)
    IN  IF r.item = NoneOpt THEN Filtered(r.events, NoneOpt)
        ELSE LET event == CHOOSE x \in r.item : TRUE
             IN  IF event.kind = "Scroll" THEN Filtered(r.events, Some(event.payload))
                 ELSE Scrolls_next(stream, r.events)

----------------------------------------------------------------------------
(* The button filters layered over Clicks and Drags *)

\* Clicks::button and Drags::button
Clicks_button(clicks, button) == [clicks |-> clicks, button |-> button]
Drags_button(drags, button) == [drags |-> drags, button |-> button]

\* Clicks::left, Clicks::middle, Clicks::right
Clicks_left(clicks) == Clicks_button(clicks, "Left")
Clicks_middle(clicks) == Clicks_button(clicks, "Middle")
Clicks_right(clicks) == Clicks_button(clicks, "Right")

\* Drags::left, Drags::middle, Drags::right
Drags_left(drags) == Drags_button(drags, "Left")
Drags_middle(drags) == Drags_button(drags, "Middle")
Drags_right(drags) == Drags_button(drags, "Right")

\* ButtonClicks::next without its test of the button.
ButtonClicks_next_AnyButton(stream, bc) ==
    LET r == Clicks_next(stream, bc.clicks)
    IN  [iter |-> [bc EXCEPT !.clicks = r.events], item |-> r.item]

\* ButtonClicks::next: pull clicks until one of the button arrives.
RECURSIVE ButtonClicks_next(_, _)
ButtonClicks_next(stream, bc) ==
    LET r == Clicks_next(stream, bc.clicks)
        bc2 == [bc EXCEPT !.clicks = r.events]
    IN  IF r.item = NoneOpt THEN [iter |-> bc2, item |-> NoneOpt]
        ELSE LET click == CHOOSE x \in r.item : TRUE
             IN  IF bc.button = click.button THEN [iter |-> bc2, item |-> Some(click)]
                 ELSE ButtonClicks_next(stream, bc2)

\* ButtonDrags::next: pull drags until one of the button arrives.
RECURSIVE ButtonDrags_next(_, _)
ButtonDrags_next(stream, bd) ==
    LET r == Drags_next(stream, bd.drags)
        bd2 == [bd EXCEPT !.drags = r.events]
    IN  IF r.item = NoneOpt THEN [iter |-> bd2, item |-> NoneOpt]
        ELSE LET drag == CHOOSE x \in r.item : TRUE
             IN  IF bd.button = drag.button THEN [iter |-> bd2, item |-> Some(drag)]
                 ELSE ButtonDrags_next(stream, bd2)

----------------------------------------------------------------------------
(* Operations *)

\* A fresh iterator of the given kind over the frame's stream.
Construct(kind, w) ==
    /\ iter = NoIter
    /\ iter' = [kind |-> kind, events |-> Widget_events(w)]
    /\ out' = << >>
    /\ at' = << >>
    /\ ended' = FALSE
    /\ UNCHANGED << start, current, events, pushed, mouseQ >>
    /\ InputOnly

\* One call of next() on the live iterator returned r.
Returned(r) ==
    /\ iter' = [iter EXCEPT !.events = r.events]
    /\ IF r.item = NoneOpt
       THEN /\ ended' = TRUE
            /\ UNCHANGED << out, at >>
       ELSE /\ out' = Append(out, CHOOSE x \in r.item : TRUE)
            /\ at' = Append(at, r.events.pos)
            /\ UNCHANGED ended
    /\ UNCHANGED << start, current, events, pushed, mouseQ >>
    /\ InputOnly

\* let mut it = widget.events();
WidgetEvents(w) == Construct("events", w)

\* it.next() on an Events
EventsNext ==
    /\ iter.kind = "events"
    /\ Returned(Events_next(events, iter.events))

\* widget.clicks(), widget.drags(), widget.texts(), widget.scrolls()
WidgetClicks(w) == Construct("clicks", w)
WidgetDrags(w) == Construct("drags", w)
WidgetTexts(w) == Construct("texts", w)
WidgetScrolls(w) == Construct("scrolls", w)

ClicksNext ==
    /\ iter.kind = "clicks"
    /\ Returned(Clicks_next(events, iter.events))

DragsNext ==
    /\ iter.kind = "drags"
    /\ Returned(Drags_next(events, iter.events))

TextsNext ==
    /\ iter.kind = "texts"
    /\ Returned(Texts_next(events, iter.events))

ScrollsNext ==
    /\ iter.kind = "scrolls"
    /\ Returned(Scrolls_next(events, iter.events))

\* A fresh button filter over the frame's stream, made of the inner iterator and
\* the button of the ButtonClicks or ButtonDrags the builder method returned.
ConstructButton(kind, inner, button) ==
    /\ iter = NoIter
    /\ iter' = [kind |-> kind, events |-> inner, button |-> button]
    /\ out' = << >>
    /\ at' = << >>
    /\ ended' = FALSE
    /\ UNCHANGED << start, current, events, pushed, mouseQ >>
    /\ InputOnly

\* widget.clicks().button(b), .left(), .middle(), .right()
WidgetClicksButton(w, b) ==
    LET f == Clicks_button(Widget_events(w), b)
    IN  ConstructButton("button_clicks", f.clicks, f.button)
WidgetClicksLeft(w) ==
    LET f == Clicks_left(Widget_events(w))
    IN  ConstructButton("button_clicks", f.clicks, f.button)
WidgetClicksMiddle(w) ==
    LET f == Clicks_middle(Widget_events(w))
    IN  ConstructButton("button_clicks", f.clicks, f.button)
WidgetClicksRight(w) ==
    LET f == Clicks_right(Widget_events(w))
    IN  ConstructButton("button_clicks", f.clicks, f.button)

\* widget.drags().button(b), .left(), .middle(), .right()
WidgetDragsButton(w, b) ==
    LET f == Drags_button(Widget_events(w), b)
    IN  ConstructButton("button_drags", f.drags, f.button)
WidgetDragsLeft(w) ==
    LET f == Drags_left(Widget_events(w))
    IN  ConstructButton("button_drags", f.drags, f.button)
WidgetDragsMiddle(w) ==
    LET f == Drags_middle(Widget_events(w))
    IN  ConstructButton("button_drags", f.drags, f.button)
WidgetDragsRight(w) ==
    LET f == Drags_right(Widget_events(w))
    IN  ConstructButton("button_drags", f.drags, f.button)

ButtonClicksNext ==
    /\ iter.kind = "button_clicks"
    /\ LET r == ButtonClicks_next(events, [clicks |-> iter.events, button |-> iter.button])
       IN  Returned([events |-> r.iter.clicks, item |-> r.item])

ButtonDragsNext ==
    /\ iter.kind = "button_drags"
    /\ LET r == ButtonDrags_next(events, [drags |-> iter.events, button |-> iter.button])
       IN  Returned([events |-> r.iter.drags, item |-> r.item])

\* The iterator goes out of scope and its borrow of the store ends.
DropIter ==
    /\ iter # NoIter
    /\ iter' = NoIter
    /\ out' = << >>
    /\ at' = << >>
    /\ ended' = FALSE
    /\ UNCHANGED << start, current, events, pushed, mouseQ >>
    /\ InputOnly

\* let m = widget.mouse();
WidgetMouse(w) ==
    /\ iter = NoIter
    /\ mouseQ' = [asked |-> TRUE, idx |-> w, view |-> Widget_mouse(w)]
    /\ UNCHANGED << start, current, events, pushed, iter, out, at, ended >>
    /\ InputOnly

----------------------------------------------------------------------------
(* Graphics backend: crop_context *)

\* A u32, the type of the fields of DrawState.scissor, is held as its two
\* 16-bit halves << high, low >>; Half is the number of values of one half.
Half == 65536

\* `v as u32` of an i32: the two's-complement bits of v.
as_u32(v) == << (v \div Half) % Half, v % Half >>

\* a + b and a - b on u32, wrapping.
u32_add(a, b) ==
    LET lo == a[2] + b[2]
    IN  << (a[1] + b[1] + lo \div Half) % Half, lo % Half >>
u32_sub(a, b) ==
    LET lo == a[2] - b[2]
    IN  << (a[1] - b[1] + lo \div Half) % Half, lo % Half >>

\* a < b and a > b on u32.
u32_lt(a, b) == a[1] < b[1] \/ (a[1] = b[1] /\ a[2] < b[2])
u32_gt(a, b) == u32_lt(b, a)

\* `(n / d) as i32` of an f64 quotient with d > 0: the fraction is dropped.
as_i32(n, d) == IF n >= 0 THEN n \div d ELSE -((-n) \div d)

\* std::cmp::max on i32, and the smaller of two numbers
max(a, b) == IF a >= b THEN a ELSE b
Min2(a, b) == IF a <= b THEN a ELSE b

\* utils::map_range: val's place in [in_min, in_max] carried over to
\* [out_min, out_max], cast to the integer type of the output range.
map_range(val, in_min, in_max, out_min, out_max) ==
    as_i32((val - in_min) * (out_max - out_min) + out_min * (in_max - in_min),
           in_max - in_min)

\* Rect::x_y_w_h: the middle and the length of each axis' range.
Rect_x_y_w_h(rect) ==
    << Rect_xy(rect)[1], Rect_xy(rect)[2],
       rect.x.end - rect.x.start, rect.y.end - rect.y.start >>

\* Context::get_view_size: the virtual window size of the context.
get_view_size(context) == context.view_size

\* The draw size of the context: its viewport's, or else the view size.
draw_size(context) ==
    IF context.viewport = NoneOpt THEN get_view_size(context)
    ELSE (CHOOSE v \in context.viewport : TRUE).draw_size

\* The corner and the size of the rectangle in device pixels, as i32, before
\* anything is clamped: << x, y, w, h >>.
mapped_rect(context, rect) ==
    LET xywh == Rect_x_y_w_h(rect)
        view_dim == get_view_size(context)
        draw_dim == draw_size(context)
        left == -view_dim[1] \div 2
        right == view_dim[1] \div 2
        bottom == -view_dim[2] \div 2
        top == view_dim[2] \div 2
        left_x == xywh[1] - xywh[3] \div 2
        top_y == xywh[2] - xywh[4] \div 2
    IN  << map_range(left_x, left, right, 0, draw_dim[1]),
           map_range(top_y, bottom, top, 0, draw_dim[2]),
           as_i32(xywh[3] * draw_dim[1], view_dim[1]),
           as_i32(xywh[4] * draw_dim[2], view_dim[2]) >>

\* The clamp without the max: a negative corner or size is cast as it is.
clamp_rect_NoMax(m) ==
    LET x_neg == IF m[1] < 0 THEN m[1] ELSE 0
        y_neg == IF m[2] < 0 THEN m[2] ELSE 0
    IN  << as_u32(m[1]), as_u32(m[2]), as_u32(m[3] + x_neg), as_u32(m[4] + y_neg) >>

\* The mapped rectangle m with its negative coordinates clamped: x, y, w, h as
\* u32, as they stand before the existing scissor is looked at.
clamp_rect(m) ==
    LET x == m[1]
        y == m[2]
        x_neg == IF x < 0 THEN x ELSE 0
        y_neg == IF y < 0 THEN y ELSE 0
    IN  << as_u32(max(0, x)), as_u32(max(0, y)),
           as_u32(max(0, m[3] + x_neg)), as_u32(max(0, m[4] + y_neg)) >>

\* The intersection test with touching rectangles counted as apart.
intersect_scissor_TouchingApart(d, r) ==
    LET a_r == u32_add(d[1], d[3])
        a_t == u32_add(d[2], d[4])
        b_r == u32_add(r[1], r[3])
        b_t == u32_add(r[2], r[4])
        l == IF u32_gt(d[1], r[1]) THEN d[1] ELSE r[1]
        rr == IF u32_lt(a_r, b_r) THEN a_r ELSE b_r
        b == IF u32_gt(d[2], r[2]) THEN d[2] ELSE r[2]
        t == IF u32_lt(a_t, b_t) THEN a_t ELSE b_t
    IN  IF \/ ~u32_gt(a_r, r[1]) \/ ~u32_gt(b_r, d[1])
           \/ ~u32_gt(a_t, r[2]) \/ ~u32_gt(b_t, d[2])
        THEN << d[1], d[2], as_u32(0), as_u32(0) >>
        ELSE << l, b, u32_sub(rr, l), u32_sub(t, b) >>

\* The intersection with the right and top edges taken for the width and height.
intersect_scissor_EdgeAsSize(d, r) ==
    LET a_r == u32_add(d[1], d[3])
        a_t == u32_add(d[2], d[4])
        b_r == u32_add(r[1], r[3])
        b_t == u32_add(r[2], r[4])
    IN  IF \/ u32_lt(a_r, r[1]) \/ u32_lt(b_r, d[1])
           \/ u32_lt(a_t, r[2]) \/ u32_lt(b_t, d[2])
        THEN << d[1], d[2], as_u32(0), as_u32(0) >>
        ELSE << IF u32_gt(d[1], r[1]) THEN d[1] ELSE r[1],
                IF u32_gt(d[2], r[2]) THEN d[2] ELSE r[2],
                IF u32_lt(a_r, b_r) THEN a_r ELSE b_r,
                IF u32_lt(a_t, b_t) THEN a_t ELSE b_t >>

\* The intersection computed without the test for rectangles that are apart.
intersect_scissor_NoTest(d, r) ==
    LET a_r == u32_add(d[1], d[3])
        a_t == u32_add(d[2], d[4])
        b_r == u32_add(r[1], r[3])
        b_t == u32_add(r[2], r[4])
        l == IF u32_gt(d[1], r[1]) THEN d[1] ELSE r[1]
        rr == IF u32_lt(a_r, b_r) THEN a_r ELSE b_r
        b == IF u32_gt(d[2], r[2]) THEN d[2] ELSE r[2]
        t == IF u32_lt(a_t, b_t) THEN a_t ELSE b_t
    IN  << l, b, u32_sub(rr, l), u32_sub(t, b) >>

\* The intersection that keeps the new rectangle whole where the two overlap.
intersect_scissor_KeepsNew(d, r) ==
    IF \/ u32_lt(u32_add(d[1], d[3]), r[1]) \/ u32_lt(u32_add(r[1], r[3]), d[1])
       \/ u32_lt(u32_add(d[2], d[4]), r[2]) \/ u32_lt(u32_add(r[2], r[4]), d[2])
    THEN << d[1], d[2], as_u32(0), as_u32(0) >>
    ELSE d

\* The device rectangle d = [x, y, w, h] against the scissor r already set.
intersect_scissor(d, r) ==
    LET x == d[1]
        y == d[2]
        w == d[3]
        h == d[4]
        r_x == r[1]
        r_y == r[2]
        r_w == r[3]
        r_h == r[4]
    IN  IF \/ u32_lt(u32_add(x, w), r_x) \/ u32_lt(u32_add(r_x, r_w), x)
           \/ u32_lt(u32_add(y, h), r_y) \/ u32_lt(u32_add(r_y, r_h), y)
        THEN << x, y, as_u32(0), as_u32(0) >>
        ELSE LET a_l == x
                 a_r == u32_add(x, w)
                 a_b == y
                 a_t == u32_add(y, h)
                 b_l == r_x
                 b_r == u32_add(r_x, r_w)
                 b_b == r_y
                 b_t == u32_add(r_y, r_h)
                 l == IF u32_gt(a_l, b_l) THEN a_l ELSE b_l
                 rr == IF u32_lt(a_r, b_r) THEN a_r ELSE b_r
                 b == IF u32_gt(a_b, b_b) THEN a_b ELSE b_b
                 t == IF u32_lt(a_t, b_t) THEN a_t ELSE b_t
             IN  << l, b, u32_sub(rr, l), u32_sub(t, b) >>

\* crop_context from the mapped rectangle m on: the clamp, the intersection
\* with the scissor already set, and the context returned.
crop_mapped(context, m) ==
    LET d == clamp_rect(m)
    IN  [context EXCEPT !.scissor =
            IF context.scissor = NoneOpt THEN Some(d)
            ELSE Some(intersect_scissor(d, CHOOSE r \in context.scissor : TRUE))]

\* crop_context: the context with its scissor narrowed to the rectangle.
crop_context(context, rect) == crop_mapped(context, mapped_rect(context, rect))

\* The contexts handed to the backend: a virtual window of 4 by 4, drawn at
\* its own size or into a viewport of 8 by 2 pixels, and no scissor yet.
BaseContexts ==
    { [view_size |-> <<4, 4>>, viewport |-> v, scissor |-> NoneOpt] :
        v \in { NoneOpt, Some([draw_size |-> <<8, 2>>]) } }

CropRanges ==
    { [start |-> s, end |-> s + 2 * k] : s \in -MaxCoord .. MaxCoord, k \in 0 .. MaxHalf }

CropRects == { [x |-> rx, y |-> ry] : rx \in CropRanges, ry \in CropRanges }

InitCrop ==
    /\ InitInput /\ DrawIdle /\ PadIdle
    /\ crop \in { [pc |-> "ready", result |-> c] : c \in BaseContexts }

\* let context = crop_context(context, rect), on the context handed to the
\* backend and then once more on the context that call returned, as for a
\* widget that crops its kids inside another one.
CropContext(rect) ==
    /\ crop.pc \in {"ready", "once"}
    /\ crop' = [pc |-> IF crop.pc = "ready" THEN "once" ELSE "twice",
                context |-> crop.result, rect |-> rect,
                result |-> crop_context(crop.result, rect)]
    /\ UNCHANGED << inputVars, drawVars, padVars >>

\* The largest i32, which a cast of a larger f64 to i32 gives.
MaxI32 == 2147483647

\* Mapped rectangles at the ends of the i32 range: a corner anywhere from the
\* least i32 to the greatest, and a size from 0 to the greatest i32.
WideCoords == { -MaxI32 - 1, -1, 0, 1, MaxI32 - 1, MaxI32 }
WideSizes == { 0, 1, MaxI32 - 1, MaxI32 }
WideRects ==
    { << x, y, w, h >> : x \in WideCoords, y \in {-1, 0, MaxI32}, w \in WideSizes, h \in {1, MaxI32} }

InitWide ==
    /\ InitInput /\ DrawIdle /\ PadIdle
    /\ crop \in { [pc |-> "wide", result |-> c] : c \in BaseContexts }

\* crop_context on a rectangle that maps to m, on the context handed to the
\* backend and then on the context each call returned, three deep.
CropMapped(m) ==
    /\ crop.pc \in {"wide", "wide_once", "wide_twice"}
    /\ crop' = [pc |-> CASE crop.pc = "wide" -> "wide_once"
                        [] crop.pc = "wide_once" -> "wide_twice"
                        [] OTHER -> "wide_thrice",
                context |-> crop.result, m |-> m,
                result |-> crop_mapped(crop.result, m)]
    /\ UNCHANGED << inputVars, drawVars, padVars >>

----------------------------------------------------------------------------
(* Graphics backend: the widget graph *)

Nodes == 0 .. MaxNode

\* Range::overlap and Rect::overlap: the shared part, if the two meet at all.
Range_overlap(a, b) ==
    LET s == max(a.start, b.start)
        e == Min2(a.end, b.end)
    IN  IF e - s >= 0 THEN Some([start |-> s, end |-> e]) ELSE NoneOpt

Rect_overlap(a, b) ==
    LET ox == Range_overlap(a.x, b.x)
        oy == Range_overlap(a.y, b.y)
    IN  IF ox = NoneOpt \/ oy = NoneOpt THEN NoneOpt
        ELSE Some([x |-> CHOOSE r \in ox : TRUE, y |-> CHOOSE r \in oy : TRUE])

\* Rect::pad: the rectangle with the padding taken off every side.
Rect_pad(rect, p) ==
    [x |-> [start |-> rect.x.start + p, end |-> rect.x.end - p],
     y |-> [start |-> rect.y.start + p, end |-> rect.y.end - p]]

Square(lo, hi) == [x |-> [start |-> lo, end |-> hi], y |-> [start |-> lo, end |-> hi]]

\* Container.rect of each node. The window is 8 by 8 about the origin; node 1
\* lies in its lower left quarter, node 2 outside the window, node 3 in the
\* middle over a corner of node 1, and any further node in the upper right
\* quarter, clear of node 1.
NodeRect(i) ==
    CASE i = 0 -> Square(-4, 4)
      [] i = 1 -> Square(-4, 0)
      [] i = 2 -> Square(6, 8)
      [] i = 3 -> Square(-2, 2)
      [] OTHER -> Square(0, 4)

\* The primitive widget kinds draw_from_container matches on, with the part
\* of their state and style it reads.
FillRectangle == [type |-> "rectangle", style |-> [shape |-> "Fill"]]

\* primitive::line::Pattern
Patterns == {"Solid", "Dashed", "Dotted"}

\* widget::primitive::shape::Style: Fill, or Outline with a line style.
ShapeStyles == { [shape |-> "Fill"] } \cup { [shape |-> "Outline", pattern |-> p] : p \in Patterns }

Kinds ==
    { [type |-> "rectangle", style |-> st] : st \in ShapeStyles }
    \cup { [type |-> "framed_rectangle", frame |-> f] : f \in {0, 1} }
    \cup { [type |-> "oval", style |-> st] : st \in ShapeStyles }
    \cup { [type |-> "polygon", style |-> st, points |-> n] :
              st \in ShapeStyles, n \in 0 .. MaxPoints }
    \cup { [type |-> "line", style |-> [pattern |-> p]] : p \in Patterns }
    \cup { [type |-> "point_path", style |-> [pattern |-> p], points |-> n] :
              p \in Patterns, n \in 0 .. MaxPoints }
    \cup { [type |-> "text", lines |-> n] : n \in 0 .. MaxPoints }
    \cup { [type |-> "image", texture |-> t] : t \in BOOLEAN }
    \cup { [type |-> "other"] }

\* graph::Container: rect, kid_area one unit inside it, crop_kids and kind.
Container(i, crop_kids, kind) ==
    [rect |-> NodeRect(i), kid_area |-> [rect |-> Rect_pad(NodeRect(i), 1)],
     crop_kids |-> crop_kids, kind |-> kind]

\* The graphs of the model: every node but the window is a placeholder or a
\* widget that may crop its kids, and has an earlier node as its depth parent.
WidgetChoices(i) ==
    {NoneOpt} \cup { Some(Container(i, c, FillRectangle)) :
                        c \in IF i = 0 THEN {FALSE} ELSE BOOLEAN }

ParentChoices(i) == IF i = 0 THEN {NoneOpt} ELSE { Some(j) : j \in 0 .. i - 1 }

\* The choices of a widget, and of a depth parent, for each of the nodes 0 .. n.
RECURSIVE WidgetMaps(_)
WidgetMaps(n) ==
    IF n = 0 THEN { [i \in {0} |-> c] : c \in WidgetChoices(0) }
    ELSE { [i \in 0 .. n |-> IF i = n THEN c ELSE f[i]] :
             f \in WidgetMaps(n - 1), c \in WidgetChoices(n) }

RECURSIVE ParentMaps(_)
ParentMaps(n) ==
    IF n = 0 THEN { [i \in {0} |-> c] : c \in ParentChoices(0) }
    ELSE { [i \in 0 .. n |-> IF i = n THEN c ELSE f[i]] :
             f \in ParentMaps(n - 1), c \in ParentChoices(n) }

Graphs ==
    { [widgets |-> ws, parent |-> ps] : ws \in WidgetMaps(MaxNode), ps \in ParentMaps(MaxNode) }

\* Graph::widget: the container at the index, if a widget is there.
widget(g, idx) == IF idx \in DOMAIN g.widgets THEN g.widgets[idx] ELSE NoneOpt

\* Graph::depth_parent_recursion: the depth parents of idx, nearest first.
RECURSIVE depth_parent_recursion(_, _)
depth_parent_recursion(g, idx) ==
    IF idx \notin DOMAIN g.parent \/ g.parent[idx] = NoneOpt THEN << >>
    ELSE LET p == CHOOSE j \in g.parent[idx] : TRUE
         IN  << p >> \o depth_parent_recursion(g, p)

\* Graph::does_recursive_depth_edge_exist
does_recursive_depth_edge_exist(g, parent, child) ==
    \E k \in 1 .. Len(depth_parent_recursion(g, child)) :
        depth_parent_recursion(g, child)[k] = parent

\* graph::algo::cropped_area_of_widget: the widget's rectangle cut down to the
\* kid area of every depth parent that crops its kids, None once nothing is left.
RECURSIVE crop_to_parents(_, _, _)
crop_to_parents(g, area, parents) ==
    IF parents = << >> THEN Some(area)
    ELSE LET c == widget(g, Head(parents))
         IN  IF c = NoneOpt \/ ~(CHOOSE x \in c : TRUE).crop_kids
             THEN crop_to_parents(g, area, Tail(parents))
             ELSE LET o == Rect_overlap(area, (CHOOSE x \in c : TRUE).kid_area.rect)
                  IN  IF o = NoneOpt THEN NoneOpt
                      ELSE crop_to_parents(g, CHOOSE x \in o : TRUE, Tail(parents))

cropped_area_of_widget(g, idx) ==
    IF widget(g, idx) = NoneOpt THEN NoneOpt
    ELSE crop_to_parents(g, (CHOOSE c \in widget(g, idx) : TRUE).rect,
                         depth_parent_recursion(g, idx))

----------------------------------------------------------------------------
(* Graphics backend: draw_from_container and draw_lines *)

NoDraws == [calls |-> << >>, panic |-> FALSE]

\* n calls of one drawing operation of the Graphics backend.
Draws(op, n) ==
    [calls |-> IF n > 0 THEN << [op |-> op, n |-> n] >> ELSE << >>, panic |-> FALSE]

\* The points of an oval: CIRCLE_RESOLUTION + 1.
CIRCLE_RESOLUTION == 50
NUM_POINTS == CIRCLE_RESOLUTION + 1

\* draw_lines that draws nothing for a pattern it does not implement.
draw_lines_SkipsOtherPatterns(n, pattern) ==
    IF n > 0 /\ pattern = "Solid" THEN Draws("line", n - 1) ELSE NoDraws

\* draw_lines over n points: a line from each point to the next if the pattern
\* is Solid, nothing if there is no first point, unimplemented!() otherwise.
draw_lines(n, pattern) ==
    IF n = 0 THEN NoDraws
    ELSE CASE pattern = "Solid" -> Draws("line", n - 1)
           [] pattern = "Dashed" -> [calls |-> << >>, panic |-> TRUE]
           [] pattern = "Dotted" -> [calls |-> << >>, panic |-> TRUE]

\* draw_from_container: the calls made on the Graphics backend for the kind of
\* the container, and whether the call panicked.
draw_from_container(container) ==
    LET kind == container.kind
    IN  CASE kind.type = "rectangle" ->
               IF kind.style.shape = "Fill" THEN Draws("rectangle", 1)
               ELSE draw_lines(5, kind.style.pattern)
          [] kind.type = "framed_rectangle" ->
               IF kind.frame > 0 THEN Draws("rectangle", 2) ELSE Draws("rectangle", 1)
          [] kind.type = "oval" ->
               IF kind.style.shape = "Fill" THEN Draws("polygon", 1)
               ELSE draw_lines(NUM_POINTS, kind.style.pattern)
          [] kind.type = "polygon" ->
               IF kind.style.shape = "Fill" THEN Draws("polygon", 1)
               ELSE draw_lines(IF kind.points = 0 THEN 0 ELSE kind.points + 1,
                               kind.style.pattern)
          [] kind.type = "line" -> draw_lines(2, kind.style.pattern)
          [] kind.type = "point_path" -> draw_lines(kind.points, kind.style.pattern)
          [] kind.type = "text" -> Draws("text", kind.lines)
          [] kind.type = "image" -> IF kind.texture THEN Draws("image", 1) ELSE NoDraws
          [] OTHER -> NoDraws

----------------------------------------------------------------------------
(* Graphics backend: draw_from_graph *)

\* The contexts draw_from_graph is called with: a virtual window of 8 by 8
\* drawn at its own size, without a scissor or with one set by the caller.
DrawContexts ==
    { [view_size |-> <<8, 8>>, viewport |-> NoneOpt, scissor |-> sc] :
        sc \in { NoneOpt, Some(<< as_u32(1), as_u32(1), as_u32(6), as_u32(6) >>) } }

\* The window lookup that goes on without a window.
window_lookup_NoReturn(g) == "loop"

\* graph.widget(window_idx): return at once if there is no window widget.
window_lookup(g) == IF widget(g, 0) = NoneOpt THEN "returned" ELSE "loop"

\* The visibility test that looks at the window only.
is_visible_WindowOnly(g, idx, container) ==
    \E window \in widget(g, 0) : Rect_overlap(container.rect, window.rect) # NoneOpt

\* is_visible: the widget overlaps the window and has a cropped area.
is_visible(g, idx, container) ==
    /\ \E window \in widget(g, 0) : Rect_overlap(container.rect, window.rect) # NoneOpt
    /\ cropped_area_of_widget(g, idx) # NoneOpt

\* The while loop that pops nothing.
pop_crop_stack_KeepsAll(g, crop_stack, idx) == crop_stack

\* The while loop that pops every entry.
pop_crop_stack_Clears(g, crop_stack, idx) == << >>

\* The while loop: pop the crop stack until its top is a depth parent of idx.
RECURSIVE pop_crop_stack(_, _, _)
pop_crop_stack(g, crop_stack, idx) ==
    IF crop_stack = << >> THEN crop_stack
    ELSE IF does_recursive_depth_edge_exist(g, crop_stack[Len(crop_stack)].idx, idx)
         THEN crop_stack
         ELSE pop_crop_stack(g, SubSeq(crop_stack, 1, Len(crop_stack) - 1), idx)

\* The push whose scissor is the kid area alone, whatever scissor was set.
crop_push_Replaces(idx, container, context) ==
    IF container.crop_kids
    THEN << [idx |-> idx,
             context |-> [context EXCEPT !.scissor =
                            Some(clamp_rect(mapped_rect(context, container.kid_area.rect)))]] >>
    ELSE << >>

\* The push that does not look at crop_kids.
crop_push_Always(idx, container, context) ==
    << [idx |-> idx, context |-> crop_context(context, container.kid_area.rect)] >>

\* The end of the loop body: a widget that crops its kids pushes its index
\* with the context cropped to its kid area.
crop_push(idx, container, context) ==
    IF container.crop_kids
    THEN << [idx |-> idx, context |-> crop_context(context, container.kid_area.rect)] >>
    ELSE << >>

\* The body of the for loop for idx: the traversal d after it.
for_body(g, d, idx) ==
    IF widget(g, idx) = NoneOpt THEN d
    ELSE LET container == CHOOSE c \in widget(g, idx) : TRUE
             crop_stack == pop_crop_stack(g, d.crop_stack, idx)
             context == IF crop_stack = << >> THEN d.context
                        ELSE crop_stack[Len(crop_stack)].context
             visible == is_visible(g, idx, container)
             drawn == IF visible THEN draw_from_container(container) ELSE NoDraws
             push == IF drawn.panic THEN << >> ELSE crop_push(idx, container, context)
         IN  [d EXCEPT
                !.pc = IF drawn.panic THEN "panicked" ELSE "loop",
                !.crop_stack = crop_stack \o push,
                !.visits = Append(@, [idx |-> idx, depth |-> Len(crop_stack),
                                      context |-> context, visible |-> visible,
                                      calls |-> drawn.calls, panic |-> drawn.panic,
                                      before |-> d.crop_stack, popped_to |-> crop_stack,
                                      push |-> push])]

InitDraw ==
    /\ InitInput /\ CropIdle /\ PadIdle
    /\ graph \in Graphs
    /\ depth_order = << >>
    /\ draw \in { [pc |-> "called", context |-> c, crop_stack |-> << >>, visits |-> << >>] :
                    c \in DrawContexts }

\* A window with widget 1, which crops its kids, widget 2 outside the window,
\* which crops its kids too, and widget 3 inside widget 1; widgets 1 and 3 are
\* of any kind, widget 2 is a filled or a dashed rectangle, and any further node
\* is a placeholder.
KindGraphs ==
    { [widgets |-> [i \in Nodes |->
                      CASE i = 0 -> Some(Container(0, FALSE, FillRectangle))
                        [] i = 1 -> Some(Container(1, TRUE, k1))
                        [] i = 2 -> Some(Container(2, TRUE, k2))
                        [] i = 3 -> Some(Container(3, FALSE, k3))
                        [] OTHER -> NoneOpt],
       parent |-> [i \in Nodes |->
                      CASE i = 0 -> NoneOpt
                        [] i = 3 -> Some(1)
                        [] OTHER -> Some(0)]] :
        k1 \in Kinds, k3 \in Kinds,
        k2 \in { FillRectangle,
                 [type |-> "rectangle", style |-> [shape |-> "Outline", pattern |-> "Dashed"]] } }

InitKinds ==
    /\ InitInput /\ CropIdle /\ PadIdle
    /\ graph \in KindGraphs
    /\ depth_order = << >>
    /\ draw = [pc |-> "called",
               context |-> [view_size |-> <<8, 8>>, viewport |-> NoneOpt, scissor |-> NoneOpt],
               crop_stack |-> << >>, visits |-> << >>]

\* draw_from_graph up to its loop.
Enter ==
    /\ draw.pc = "called"
    /\ draw' = [draw EXCEPT !.pc = window_lookup(graph)]
    /\ UNCHANGED << inputVars, cropVars, padVars, graph, depth_order >>

\* One round of the for loop, for a next index of the depth order that was
\* not in it before.
Visit(idx) ==
    /\ draw.pc = "loop"
    /\ \A k \in 1 .. Len(depth_order) : depth_order[k] # idx
    /\ depth_order' = Append(depth_order, idx)
    /\ draw' = for_body(graph, draw, idx)
    /\ UNCHANGED << inputVars, cropVars, padVars, graph >>

----------------------------------------------------------------------------
(* XYPad::update *)

\* The pad's rectangle.
PadRect == Square(-3, 3)

\* Range::clamp_value
clamp_value(range, v) == max(range.start, Min2(range.end, v))

\* What ui.widget_input(idx).mouse() returns to the pad: nothing while the pad
\* does not hold the mouse, else the cursor and the left button, which is down,
\* or up since this update ("released"), or up since longer ("idle").
PadMouse ==
    {NoneOpt} \cup { Some([left |-> b, abs_xy |-> << mx, my >>]) :
                        b \in {"down", "released", "idle"},
                        mx \in PadRect.x.start - 1 .. PadRect.x.end + 1,
                        my \in {PadRect.y.start, 0, PadRect.y.end + 1} }

\* XYPad::update on the pad built with the values x and y and the ranges
\* 0 .. MaxValue: the new value and the calls of the reaction function.
xy_pad_update(p, mouse) ==
    LET inner_rect == Rect_pad(PadRect, 1)   \* a frame one unit wide
        down == \E m \in mouse : m.left = "down"
        m_abs_xy == (CHOOSE m \in mouse : TRUE).abs_xy
        clamped_x == clamp_value(inner_rect.x, m_abs_xy[1])
        clamped_y == clamp_value(inner_rect.y, m_abs_xy[2])
        new_x == IF down THEN map_range(clamped_x, inner_rect.x.start, inner_rect.x.end,
                                        0, MaxValue)
                 ELSE p.x
        new_y == IF down THEN map_range(clamped_y, inner_rect.y.start, inner_rect.y.end,
                                        0, MaxValue)
                 ELSE p.y
    IN  [new_x |-> new_x, new_y |-> new_y,
         reacts |-> IF p.maybe_react /\ (p.x # new_x \/ p.y # new_y)
                    THEN << << new_x, new_y >> >> ELSE << >>]

InitPad ==
    /\ InitInput /\ CropIdle /\ DrawIdle
    /\ pad \in { [pc |-> "built", x |-> x, y |-> y, maybe_react |-> r] :
                    x \in 0 .. MaxValue, y \in 0 .. MaxValue, r \in BOOLEAN }

\* XYPad::new(x, y, ..).react(..).set(..): the pad is updated with the mouse as
\* the Ui has it.
PadUpdate(mouse) ==
    /\ pad.pc = "built"
    /\ pad' = [pc |-> "updated", x |-> pad.x, y |-> pad.y, maybe_react |-> pad.maybe_react,
               mouse |-> mouse, result |-> xy_pad_update(pad, mouse)]
    /\ UNCHANGED << inputVars, cropVars, drawVars >>

\* The next frame: the application builds the pad again, with the value it
\* was given by the reaction if there was one.
PadBuild ==
    /\ pad.pc = "updated"
    /\ pad' = [pc |-> "built",
               x |-> IF pad.result.reacts # << >> THEN pad.result.new_x ELSE pad.x,
               y |-> IF pad.result.reacts # << >> THEN pad.result.new_y ELSE pad.y,
               maybe_react |-> pad.maybe_react]
    /\ UNCHANGED << inputVars, cropVars, drawVars >>

----------------------------------------------------------------------------
(* Specifications *)

\* The store and the Events iterator.
Next ==
    \/ \E e \in UiEvent : PushEvent(e)
    \/ NewFrame
    \/ \E w \in Widgets : WidgetEvents(w)
    \/ EventsNext
    \/ DropIter

Spec == Init /\ [][Next]_vars

\* The store and the filters over Events.
NextFilters ==
    \/ \E e \in UiEvent : PushEvent(e)
    \/ NewFrame
    \/ \E w \in Widgets : WidgetClicks(w)
    \/ \E w \in Widgets : WidgetDrags(w)
    \/ \E w \in Widgets : WidgetTexts(w)
    \/ \E w \in Widgets : WidgetScrolls(w)
    \/ ClicksNext
    \/ DragsNext
    \/ TextsNext
    \/ ScrollsNext
    \/ DropIter

SpecFilters == Init /\ [][NextFilters]_vars

\* The store and the button filters over Clicks and Drags.
NextButtons ==
    \/ \E e \in UiEvent : PushEvent(e)
    \/ NewFrame
    \/ \E w \in Widgets, b \in MouseButtons : WidgetClicksButton(w, b)
    \/ \E w \in Widgets : WidgetClicksLeft(w)
    \/ \E w \in Widgets : WidgetClicksMiddle(w)
    \/ \E w \in Widgets : WidgetClicksRight(w)
    \/ \E w \in Widgets, b \in MouseButtons : WidgetDragsButton(w, b)
    \/ \E w \in Widgets : WidgetDragsLeft(w)
    \/ \E w \in Widgets : WidgetDragsMiddle(w)
    \/ \E w \in Widgets : WidgetDragsRight(w)
    \/ ButtonClicksNext
    \/ ButtonDragsNext
    \/ DropIter

SpecButtons == Init /\ [][NextButtons]_vars

\* The events of the streams every kind of iterator is run over together: a
\* capture, and a text, click, drag and scroll for each widget.
IterEvents ==
    { e \in UiEvent :
        \/ e.kind = "WidgetCapturesMouse"
        \/ /\ e.kind \in { "Text", "Click", "Drag", "Scroll" }
           /\ e.idx \in { Some(w) : w \in Widgets } }

\* A call of next() on the live iterator, of whichever kind it is.
IterNext ==
    \/ EventsNext
    \/ ClicksNext
    \/ DragsNext
    \/ TextsNext
    \/ ScrollsNext
    \/ ButtonClicksNext
    \/ ButtonDragsNext

\* The store, Events and every filter over it.
NextIters ==
    \/ \E e \in IterEvents : PushEvent(e)
    \/ NewFrame
    \/ \E w \in Widgets : WidgetEvents(w)
    \/ \E w \in Widgets : WidgetClicks(w)
    \/ \E w \in Widgets : WidgetDrags(w)
    \/ \E w \in Widgets : WidgetTexts(w)
    \/ \E w \in Widgets : WidgetScrolls(w)
    \/ \E w \in Widgets, b \in MouseButtons : WidgetClicksButton(w, b)
    \/ \E w \in Widgets : WidgetClicksLeft(w)
    \/ \E w \in Widgets : WidgetClicksMiddle(w)
    \/ \E w \in Widgets : WidgetClicksRight(w)
    \/ \E w \in Widgets, b \in MouseButtons : WidgetDragsButton(w, b)
    \/ \E w \in Widgets : WidgetDragsLeft(w)
    \/ \E w \in Widgets : WidgetDragsMiddle(w)
    \/ \E w \in Widgets : WidgetDragsRight(w)
    \/ IterNext
    \/ DropIter

SpecIters == Init /\ [][NextIters]_vars

\* A call of next() changes the state exactly while the live iterator has not
\* returned None: it yields an item or it returns None for the first time.
Pulling == iter # NoIter /\ ~ended

\* The same with a caller that goes on pulling from the iterator it holds:
\* WF_vars(IterNext), with ENABLED <<IterNext>>_vars written out as Pulling.
SpecItersLive == SpecIters /\ ([]<>(~Pulling) \/ []<><<IterNext>>_vars)

\* The store and the mouse query.
NextMouse ==
    \/ \E e \in UiEvent : PushEvent(e)
    \/ NewFrame
    \/ \E w \in Widgets : WidgetMouse(w)

SpecMouse == Init /\ [][NextMouse]_vars

\* crop_context, alone and nested.
NextCrop == \E rect \in CropRects : CropContext(rect)

SpecCrop == InitCrop /\ [][NextCrop]_vars

\* crop_context on rectangles at the ends of the i32 range.
NextWide == \E m \in WideRects : CropMapped(m)

SpecWide == InitWide /\ [][NextWide]_vars

\* draw_from_graph over every graph and depth order of the bound.
NextDraw ==
    \/ Enter
    \/ \E idx \in Nodes : Visit(idx)

SpecDraw == InitDraw /\ [][NextDraw]_vars

\* The nesting of scissors: draw_from_graph's crop stack, or crop_context on
\* its own on the context an earlier call returned.
InitClip == InitDraw \/ InitCrop
NextClip ==
    \/ draw.pc # "idle" /\ NextDraw
    \/ crop.pc # "idle" /\ NextCrop

SpecClip == InitClip /\ [][NextClip]_vars

\* draw_from_graph over widgets of every primitive kind.
SpecKinds == InitKinds /\ [][NextDraw]_vars

\* An XYPad updated frame after frame.
NextPad ==
    \/ \E mouse \in PadMouse : PadUpdate(mouse)
    \/ PadBuild

SpecPad == InitPad /\ [][NextPad]_vars

----------------------------------------------------------------------------
(* Properties of the Events iterator (checked under Spec) *)

TargetedKinds ==
    { "Text", "Move", "Press", "Release", "Click", "DoubleClick", "Drag", "Scroll" }

\* The widget the live iterator was made for, and how far it has read.
Observed == iter.events.idx
Consumed == 1 .. iter.events.pos

\* Whether next() returned an item on reading the p-th event of the stream.
YieldedAt(p) == \E i \in 1 .. Len(at) : at[i] = p

\* The event::Widget variant a Ui event is surfaced as.
WidgetKind(ui) ==
    CASE ui.kind = "WidgetCapturesMouse" -> "CapturesMouse"
      [] ui.kind = "WidgetUncapturesMouse" -> "UncapturesMouse"
      [] ui.kind = "WidgetCapturesKeyboard" -> "CapturesKeyboard"
      [] ui.kind = "WidgetUncapturesKeyboard" -> "UncapturesKeyboard"
      [] OTHER -> ui.kind

\* The delivery rule of the router: capture events and per-widget events by their
\* index, window resizes always.
Matches(ui, w) ==
    CASE ui.kind \in CaptureKinds -> ui.idx = w
      [] ui.kind = "WindowResized" -> TRUE
      [] OTHER -> ui.idx = Some(w)

\* A point relative to the centre of w's rectangle.
Rel(pt, w) == << pt[1] - Rect_xy(RectOf(w))[1], pt[2] - Rect_xy(RectOf(w))[2] >>

Decided == IF ended THEN 1 .. Len(events) ELSE Consumed

C3_ResizeBroadcast ==
    iter.kind = "events" =>
        \A p \in Decided :
            events[p].kind = "WindowResized" =>
                \E i \in 1 .. Len(at) :
                    /\ at[i] = p
                    /\ out[i] = [kind |-> "WindowResized", dim |-> events[p].dim]

\* C3 witness: the other widget held the mouse at the start of the frame and the
\* resize still reached W.
C3_Witness ==
    /\ iter.kind = "events"
    /\ start.widget_capturing_mouse \notin {NoneOpt, Some(Observed)}
    /\ iter.events.capturing_mouse \notin {NoneOpt, Some(Observed)}
    /\ Len(events) = 1
    /\ events[1].kind = "WindowResized"
    /\ out = << [kind |-> "WindowResized", dim |-> events[1].dim] >>

\* The capture state the iterator should be tracking after reading n events.
RECURSIVE TrackedAfter(_)
TrackedAfter(n) ==
    IF n = 0 THEN start ELSE ApplyCapture(TrackedAfter(n - 1), events[n])

\* C4: a capture or uncapture event carrying index I was surfaced to W (as
\* CapturesMouse, UncapturesMouse, CapturesKeyboard or UncapturesKeyboard) if and
\* only if I = W; every such event read, surfaced or not, is folded into the
\* iterator's tracked capture state.
C4_CaptureSurfacedOnlyToSelf ==
    iter.kind = "events" =>
        /\ \A p \in Consumed :
              events[p].kind \in CaptureKinds =>
                  /\ YieldedAt(p) <=> events[p].idx = Observed
                  /\ \A i \in 1 .. Len(at) :
                        at[i] = p => out[i] = [kind |-> WidgetKind(events[p])]
        /\ iter.events.capturing_mouse =
              TrackedAfter(iter.events.pos).widget_capturing_mouse
        /\ iter.events.capturing_keyboard =
              TrackedAfter(iter.events.pos).widget_capturing_keyboard

\* C4 witness: the other widget captured the keyboard; W's iterator tracked it and
\* yielded nothing.
C4_Witness ==
    /\ iter.kind = "events"
    /\ ended
    /\ Len(events) = 1
    /\ events[1].kind = "WidgetCapturesKeyboard" /\ events[1].idx # Observed
    /\ start.widget_capturing_keyboard = NoneOpt
    /\ iter.events.capturing_keyboard = Some(events[1].idx)
    /\ out = << >>

\* An item that reports the mouse.
MouseRelated(item) ==
    \/ item.kind \in {"Click", "DoubleClick", "Drag", "Move", "Scroll"}
    \/ item.kind \in {"Press", "Release"} /\ item.payload.button.dev = "Mouse"

\* A Ui event that reports the keyboard.
KeyboardEvent(ui) ==
    \/ ui.kind = "Text"
    \/ ui.kind \in {"Press", "Release"} /\ ui.payload.button.dev = "Keyboard"

\* C5: if W does not capture the mouse (not at the start of the frame, and no
\* event of the stream makes it the captor), W's iterator yields no mouse event.
C5_NoMouseEventsWithoutCapture ==
    ( /\ iter.kind = "events"
      /\ start.widget_capturing_mouse # Some(Observed)
      /\ \A p \in 1 .. Len(events) :
            events[p] # [kind |-> "WidgetCapturesMouse", idx |-> Observed] )
    => \A i \in 1 .. Len(out) : ~MouseRelated(out[i])

\* C6: if W captures the keyboard at the start of the frame, W's iterator, read to
\* the end, has yielded every keyboard event of the stream, whatever its target.
C6_AllKeyboardEventsWhenCapturing ==
    ( /\ iter.kind = "events"
      /\ ended
      /\ start.widget_capturing_keyboard = Some(Observed) )
    => \A p \in 1 .. Len(events) : KeyboardEvent(events[p]) => YieldedAt(p)

\* The payload W should receive for a Ui event targeted at it.
ExpectedPayload(ui, w) ==
    CASE ui.kind \in {"Press", "Release"} ->
           IF ui.payload.button.dev = "Mouse"
           THEN [button |-> [dev |-> "Mouse",
                             button |-> ui.payload.button.button,
                             xy |-> Rel(ui.payload.button.xy, w)]]
           ELSE ui.payload
      [] ui.kind \in {"Click", "DoubleClick"} ->
           [button |-> ui.payload.button, xy |-> Rel(ui.payload.xy, w)]
      [] ui.kind = "Drag" ->
           [button |-> ui.payload.button,
            from |-> Rel(ui.payload.from, w),
            to |-> Rel(ui.payload.to, w)]
      [] OTHER -> ui.payload

----------------------------------------------------------------------------
(* Properties of the filters (checked under SpecFilters) *)

\* The event::Ui variant each filter projects.
VariantOf(kind) ==
    CASE kind = "clicks" -> "Click"
      [] kind = "drags" -> "Drag"
      [] kind = "texts" -> "Text"
      [] kind = "scrolls" -> "Scroll"

FilterKinds == {"clicks", "drags", "texts", "scrolls"}

----------------------------------------------------------------------------
(* Properties of Widget::mouse (checked under SpecMouse) *)

\* C7 as claimed: mouse() returns a view only to the widget that held the mouse
\* at the start of the frame, the snapshot events() is built from.
C7_MouseViewOnlyForStartCaptor ==
    mouseQ.asked =>
        /\ mouseQ.view # NoneOpt => start.widget_capturing_mouse = Some(mouseQ.idx)
        /\ start.widget_capturing_mouse # Some(mouseQ.idx) => mouseQ.view = NoneOpt

\* C7 amended: mouse() returns a view, of W's rectangle, exactly when W holds the
\* mouse in the current capture state, which the frame's capture events have moved
\* on from the start-of-frame snapshot.
C7_MouseViewOnlyForCurrentCaptor ==
    mouseQ.asked =>
        /\ mouseQ.view # NoneOpt => current.widget_capturing_mouse = Some(mouseQ.idx)
        /\ current.widget_capturing_mouse # Some(mouseQ.idx) => mouseQ.view = NoneOpt
        /\ \A v \in mouseQ.view : v.rect = RectOf(mouseQ.idx)

\* C7 witness: W captured the mouse during the frame, so the start-of-frame state
\* names no captor, and mouse() returns W a view.
C7_Witness ==
    /\ mouseQ.asked
    /\ mouseQ.view # NoneOpt
    /\ start.widget_capturing_mouse = NoneOpt
    /\ current.widget_capturing_mouse = Some(mouseQ.idx)

\* C8: for distinct W1 and W2, mouse() gives W1 nothing while the capture state
\* names W2 or no widget, and a view while it names W1; no capture state gives two
\* widgets a view.
C8_AtMostOneMouseView ==
    /\ \A w1, w2 \in Widgets :
          w1 # w2 =>
              /\ current.widget_capturing_mouse \in {Some(w2), NoneOpt}
                    => Widget_mouse(w1) = NoneOpt
              /\ current.widget_capturing_mouse = Some(w1)
                    => Widget_mouse(w1) # NoneOpt
    /\ Cardinality({ w \in Widgets : Widget_mouse(w) # NoneOpt }) <= 1

\* C8 witness: the mouse is captured by widget 2 and widget 1 asked for it in vain.
C8_Witness ==
    /\ mouseQ.asked
    /\ mouseQ.idx = 1
    /\ current.widget_capturing_mouse = Some(2)
    /\ mouseQ.view = NoneOpt

----------------------------------------------------------------------------
(* Properties of the button filters (checked under SpecButtons) *)

\* What clicks() and drags() yield from the iterator state e on, each item with
\* the cursor position it was yielded at.
RECURSIVE AllClicks(_)
AllClicks(e) ==
    LET r == Clicks_next(events, e)
    IN  IF r.item = NoneOpt THEN << >>
        ELSE << [item |-> CHOOSE x \in r.item : TRUE, pos |-> r.events.pos] >>
             \o AllClicks(r.events)

RECURSIVE AllDrags(_)
AllDrags(e) ==
    LET r == Drags_next(events, e)
    IN  IF r.item = NoneOpt THEN << >>
        ELSE << [item |-> CHOOSE x \in r.item : TRUE, pos |-> r.events.pos] >>
             \o AllDrags(r.events)

OfButton(c) == c.item.button = iter.button

\* The subsequence of clicks() (of drags()) the live button filter should yield.
ButtonSelection ==
    IF iter.kind = "button_clicks"
    THEN SelectSeq(AllClicks(Widget_events(Observed)), OfButton)
    ELSE SelectSeq(AllDrags(Widget_events(Observed)), OfButton)

\* C11: clicks().button(b) and drags().button(b) yield the clicks (drags) of
\* clicks() (drags()) whose button is b, in the same order and no others; left(),
\* middle() and right() build the same filter as button(Left), button(Middle) and
\* button(Right).
C11_ButtonFiltersSelectByButton ==
    /\ iter.kind \in {"button_clicks", "button_drags"} =>
          LET selection == ButtonSelection
          IN  /\ Len(out) = Len(at)
              /\ Len(out) <= Len(selection)
              /\ ended => Len(out) = Len(selection)
              /\ \A i \in 1 .. Len(out) :
                    /\ out[i] = selection[i].item
                    /\ at[i] = selection[i].pos
    /\ \A w \in Widgets :
          LET e == Widget_events(w)
          IN  /\ Clicks_left(e) = Clicks_button(e, "Left")
              /\ Clicks_middle(e) = Clicks_button(e, "Middle")
              /\ Clicks_right(e) = Clicks_button(e, "Right")
              /\ Drags_left(e) = Drags_button(e, "Left")
              /\ Drags_middle(e) = Drags_button(e, "Middle")
              /\ Drags_right(e) = Drags_button(e, "Right")

\* C11 witness: of a left click and then a middle click on W, the middle filter
\* read to the end yielded the second only.
C11_Witness ==
    /\ iter.kind = "button_clicks"
    /\ iter.button = "Middle"
    /\ ended
    /\ Len(events) = 2
    /\ events[1].kind = "Click" /\ events[1].idx = Some(Observed)
    /\ events[1].payload.button = "Left"
    /\ events[2].kind = "Click" /\ events[2].idx = Some(Observed)
    /\ events[2].payload.button = "Middle"
    /\ at = << 2 >>
    /\ out[1].button = "Middle"

----------------------------------------------------------------------------
(* Properties of crop_context (checked under SpecCrop) *)

\* The number a u32 of the model stands for, its high half being clear.
u32_val(u) == u[1] * Half + u[2]

ScissorOf(context) ==
    LET r == CHOOSE r \in context.scissor : TRUE
    IN  << u32_val(r[1]), u32_val(r[2]), u32_val(r[3]), u32_val(r[4]) >>

\* The rectangle of the call in device pixels, as crop_context has it before it
\* looks at the scissor already set.
CropDevice ==
    LET d == clamp_rect(mapped_rect(crop.context, crop.rect))
    IN  << u32_val(d[1]), u32_val(d[2]), u32_val(d[3]), u32_val(d[4]) >>

\* Two device rectangles with a gap between them on some axis.
Apart(d, r) ==
    \/ d[1] + d[3] < r[1] \/ r[1] + r[3] < d[1]
    \/ d[2] + d[4] < r[2] \/ r[2] + r[4] < d[2]

\* Two device rectangles that share no area: apart, or touching along an edge
\* or at a corner.
NoOverlap(d, r) ==
    \/ d[1] + d[3] <= r[1] \/ r[1] + r[3] <= d[1]
    \/ d[2] + d[4] <= r[2] \/ r[2] + r[4] <= d[2]

\* The axis-aligned intersection of two device rectangles that are not apart.
Intersection(d, r) ==
    << max(d[1], r[1]), max(d[2], r[2]),
       Min2(d[1] + d[3], r[1] + r[3]) - max(d[1], r[1]),
       Min2(d[2] + d[4], r[2] + r[4]) - max(d[2], r[2]) >>

\* C16 as claimed: cropping a context that has a scissor to a rectangle that
\* shares no area with it, touching ones included, gives a scissor of width 0
\* and height 0.
C16_NoOverlapGivesZeroByZero ==
    crop.pc = "twice" /\ NoOverlap(CropDevice, ScissorOf(crop.context)) =>
        /\ ScissorOf(crop.result)[3] = 0
        /\ ScissorOf(crop.result)[4] = 0

\* C16 amended: a rectangle with a gap to the scissor on some axis gives a
\* scissor of width 0 and height 0; one that only touches it along an edge or at
\* a corner gives their intersection, which has no area but keeps the length of
\* the shared edge as its width or height.
C16_ApartGivesZeroByZero ==
    crop.pc = "twice" =>
        LET d == CropDevice
            r == ScissorOf(crop.context)
            res == ScissorOf(crop.result)
        IN  /\ Apart(d, r) => res[3] = 0 /\ res[4] = 0
            /\ NoOverlap(d, r) /\ ~Apart(d, r) =>
                  /\ res = Intersection(d, r)
                  /\ res[3] = 0 \/ res[4] = 0

\* C16 witness: the rectangle lies a pixel right of the scissor, both two
\* pixels wide and high, and the scissor returned is 0 by 0.
C16_Witness ==
    /\ crop.pc = "twice"
    /\ ScissorOf(crop.context) = <<0, 0, 2, 2>>
    /\ CropDevice = <<3, 0, 2, 2>>
    /\ ScissorOf(crop.result)[3] = 0
    /\ ScissorOf(crop.result)[4] = 0

\* C17: cropping a context whose scissor is S to a rectangle that converts to
\* exactly S gives scissor S again, also when S is 0 wide or 0 high.
C17_CropToOwnScissorIsIdentity ==
    crop.pc = "twice" /\ CropDevice = ScissorOf(crop.context) =>
        crop.result.scissor = crop.context.scissor

\* C17 witness: S is 0 wide and 2 high, away from the origin, and cropping to
\* it again returned S.
C17_Witness ==
    /\ crop.pc = "twice"
    /\ CropDevice = ScissorOf(crop.context)
    /\ ScissorOf(crop.context) = <<1, 1, 0, 2>>
    /\ ScissorOf(crop.result) = <<1, 1, 0, 2>>

\* C18: without a scissor set before, a corner mapped to a negative x gives
\* x = 0 and the mapped width less the part left of 0, or 0 if that is negative;
\* likewise y and the height; a corner that is not negative is kept with its
\* size; and no field of any scissor returned has the bits of a negative number.
C18_NegativeCornerClampedToZero ==
    /\ crop.pc = "once" =>
          LET m == mapped_rect(crop.context, crop.rect)
              res == CHOOSE r \in crop.result.scissor : TRUE
          IN  /\ m[1] < 0 => /\ res[1] = as_u32(0)
                              /\ res[3] = as_u32(IF m[3] + m[1] < 0 THEN 0 ELSE m[3] + m[1])
              /\ m[2] < 0 => /\ res[2] = as_u32(0)
                              /\ res[4] = as_u32(IF m[4] + m[2] < 0 THEN 0 ELSE m[4] + m[2])
              /\ m[1] >= 0 => res[1] = as_u32(m[1]) /\ res[3] = as_u32(m[3])
              /\ m[2] >= 0 => res[2] = as_u32(m[2]) /\ res[4] = as_u32(m[4])
    /\ crop.pc \in {"once", "twice"} =>
          \A r \in crop.result.scissor : \A i \in 1 .. 4 : r[i][1] < Half \div 2

\* C18 witness: the corner is mapped to (-1, -1) with a width of 0 and a height
\* of 2: the scissor is at (0, 0), 0 wide and 1 high.
C18_Witness ==
    /\ crop.pc = "once"
    /\ mapped_rect(crop.context, crop.rect) = <<-1, -1, 0, 2>>
    /\ ScissorOf(crop.result) = <<0, 0, 0, 1>>

----------------------------------------------------------------------------
(* Properties of draw_from_graph (checked under SpecDraw) *)

\* The depth parents of idx that are widgets and crop their kids, nearest first.
CropAncestors(idx) ==
    SelectSeq(depth_parent_recursion(graph, idx),
              LAMBDA p : \E c \in widget(graph, p) : c.crop_kids)

\* C12: with no widget at node 0, draw_from_graph returns before its loop:
\* no index of the depth order is walked, whatever widgets the graph holds, no
\* draw call is issued and nothing is pushed on the crop stack.
C12_NoWindowNoDraw ==
    draw.pc # "idle" /\ widget(graph, 0) = NoneOpt =>
        /\ draw.pc \in {"called", "returned"}
        /\ depth_order = << >>
        /\ draw.visits = << >>
        /\ draw.crop_stack = << >>

\* C12 witness: node 0 is missing, every other node is a widget that crops its
\* kids, and draw_from_graph has returned.
C12_Witness ==
    /\ draw.pc = "returned"
    /\ widget(graph, 0) = NoneOpt
    /\ \A i \in Nodes \ {0} : \E c \in widget(graph, i) : c.crop_kids
    /\ draw.visits = << >>
    /\ draw.crop_stack = << >>

\* C14: in any depth order, the crop stack a widget is drawn under, after the
\* pops and before its own push, is no deeper than the number of its depth
\* parents that crop their kids.
C14_StackDepthAtMostCropAncestors ==
    draw.pc # "idle" =>
        \A k \in 1 .. Len(draw.visits) :
            draw.visits[k].depth <= Len(CropAncestors(draw.visits[k].idx))

\* C14 witness: a widget with two cropping depth parents is visited first, under
\* an empty stack; its parents follow, the inner one under a stack of depth one.
C14_Witness ==
    /\ draw.pc = "loop"
    /\ Len(draw.visits) = 3
    /\ Len(CropAncestors(draw.visits[1].idx)) = 2
    /\ draw.visits[1].depth = 0
    /\ Len(CropAncestors(draw.visits[3].idx)) = 1
    /\ draw.visits[3].depth = 1

\* A widget is at idx, its rectangle overlaps the window's and
\* cropped_area_of_widget returns a region for it.
Visible(idx) ==
    /\ widget(graph, idx) # NoneOpt
    /\ \E c \in widget(graph, idx) : \E window \in widget(graph, 0) :
          Rect_overlap(c.rect, window.rect) # NoneOpt
    /\ cropped_area_of_widget(graph, idx) # NoneOpt

\* The indices draw_from_container was called for, in the order of the calls.
Dispatched ==
    [k \in 1 .. Len(SelectSeq(draw.visits, LAMBDA v : v.visible)) |->
        SelectSeq(draw.visits, LAMBDA v : v.visible)[k].idx]

\* C15: the draw dispatches are the depth order walked so far, restricted to the
\* indices that are widgets and visible, in the same order; a placeholder or a
\* widget that is not visible causes no draw call.
C15_DispatchesAreVisibleDepthOrder ==
    draw.pc # "idle" =>
        /\ Dispatched = SelectSeq(depth_order, Visible)
        /\ \A k \in 1 .. Len(draw.visits) :
              draw.visits[k].calls # << >> <=> draw.visits[k].visible

\* C15 witness: node 3, cropped away by node 2, then node 2, outside the
\* window, then nodes 1 and 0 were walked; the dispatches are 1 and 0.
C15_Witness ==
    /\ depth_order = << 3, 2, 1, 0 >>
    /\ graph.parent[3] = Some(2)
    /\ \A i \in Nodes : widget(graph, i) # NoneOpt
    /\ Dispatched = << 1, 0 >>

\* The scissor of a context as a clip region, None if nothing is clipped.
ClipOf(context) ==
    IF context.scissor = NoneOpt THEN NoneOpt ELSE Some(ScissorOf(context))

\* The kid area of the widget at idx in device pixels.
KidAreaDevice(idx) ==
    LET c == CHOOSE c \in widget(graph, idx) : TRUE
        d == clamp_rect(mapped_rect(draw.context, c.kid_area.rect))
    IN  << u32_val(d[1]), u32_val(d[2]), u32_val(d[3]), u32_val(d[4]) >>

\* A clip region narrowed to the kid areas of the widgets at the indices.
RECURSIVE MeetAll(_, _)
MeetAll(clip, indices) ==
    IF indices = << >> THEN clip
    ELSE LET d == KidAreaDevice(Head(indices))
             met == IF clip = NoneOpt THEN d
                    ELSE IF NoOverlap(d, CHOOSE r \in clip : TRUE) THEN << 0, 0, 0, 0 >>
                    ELSE Intersection(d, CHOOSE r \in clip : TRUE)
         IN  MeetAll(Some(met), Tail(indices))

\* Two clip regions that let the same pixels through.
SameRegion(a, b) ==
    \/ a = NoneOpt /\ b = NoneOpt
    \/ /\ a # NoneOpt /\ b # NoneOpt
       /\ \E r \in a : \E q \in b :
             \/ r = q
             \/ (r[3] = 0 \/ r[4] = 0) /\ (q[3] = 0 \/ q[4] = 0)

\* In the depth order walked so far every depth parent comes before its kids.
Topological ==
    \A k \in 1 .. Len(depth_order) :
        \A a \in 1 .. Len(depth_parent_recursion(graph, depth_order[k])) :
            \E j \in 1 .. k - 1 :
                depth_order[j] = depth_parent_recursion(graph, depth_order[k])[a]

\* C13: in a depth order where every parent precedes its descendants, every
\* widget drawn is drawn with the base scissor narrowed to the kid areas, in
\* device pixels, of all its depth parents that crop their kids.
C13_DrawnUnderAllCropAncestors ==
    draw.pc # "idle" /\ Topological =>
        \A k \in 1 .. Len(draw.visits) :
            draw.visits[k].visible =>
                SameRegion(ClipOf(draw.visits[k].context),
                           MeetAll(ClipOf(draw.context), CropAncestors(draw.visits[k].idx)))

----------------------------------------------------------------------------
(* Properties of draw_lines within the traversal (checked under SpecKinds) *)

KindOf(idx) == (CHOOSE c \in widget(graph, idx) : TRUE).kind

\* The primitives drawn as lines: line, point path, and outlined shapes.
LineBased(kind) ==
    \/ kind.type \in {"line", "point_path"}
    \/ kind.type \in {"rectangle", "oval", "polygon"} /\ kind.style.shape = "Outline"

\* The points handed to draw_lines for a line-based primitive: the four
\* corners of a rectangle and the first again, the points round an oval, the
\* points of a polygon and the first again, the two ends of a line, the points
\* of a point path.
PointsOf(kind) ==
    CASE kind.type = "rectangle" -> 5
      [] kind.type = "oval" -> NUM_POINTS
      [] kind.type = "polygon" -> IF kind.points = 0 THEN 0 ELSE kind.points + 1
      [] kind.type = "line" -> 2
      [] kind.type = "point_path" -> kind.points

\* A line-based primitive with a point and a pattern that is not implemented.
Unimplemented(kind) ==
    /\ LineBased(kind)
    /\ PointsOf(kind) >= 1
    /\ kind.style.pattern \in {"Dashed", "Dotted"}

\* C19: drawing a line-based primitive that has a point and a Dashed or Dotted
\* pattern panics: it issues no draw call, pushes nothing, and the traversal
\* stops there, with no later index of the depth order walked; drawing any other
\* primitive, a Solid one or one without points included, does not panic.
C19_DashedOrDottedAborts ==
    draw.pc # "idle" =>
        /\ \A k \in 1 .. Len(draw.visits) :
              LET v == draw.visits[k]
              IN  /\ v.panic <=> v.visible /\ Unimplemented(KindOf(v.idx))
                  /\ v.panic =>
                        /\ k = Len(draw.visits)
                        /\ depth_order[Len(depth_order)] = v.idx
                        /\ v.calls = << >>
                        /\ draw.pc = "panicked"
                        /\ \A j \in 1 .. Len(draw.crop_stack) : draw.crop_stack[j].idx # v.idx
        /\ draw.pc = "panicked" =>
              Len(draw.visits) > 0 /\ draw.visits[Len(draw.visits)].panic
        /\ draw.pc = "panicked" => ~ENABLED (\E idx \in Nodes : Visit(idx))

\* C19 witness: widget 1, a Dashed point path without points, was drawn without
\* a panic; widget 3, a Dotted outlined polygon of one point, panicked, and the
\* window and widget 2 were never reached.
C19_Witness ==
    /\ draw.pc = "panicked"
    /\ depth_order = << 1, 3 >>
    /\ KindOf(1) = [type |-> "point_path", style |-> [pattern |-> "Dashed"], points |-> 0]
    /\ KindOf(3) = [type |-> "polygon",
                    style |-> [shape |-> "Outline", pattern |-> "Dotted"], points |-> 1]
    /\ ~draw.visits[1].panic
    /\ draw.visits[2].panic

----------------------------------------------------------------------------
(* Properties of XYPad::update (checked under SpecPad) *)

\* C20: an update of a pad that has a reaction function calls it when the value
\* changed, and also when the left button was released with the cursor over the
\* pad although the value did not change; it calls it at most once.
C20_ReactsOnChangeOrRelease ==
    pad.pc = "updated" /\ pad.maybe_react =>
        /\ Len(pad.result.reacts) <= 1
        /\ pad.result.new_x # pad.x \/ pad.result.new_y # pad.y => pad.result.reacts # << >>
        /\ (\E m \in pad.mouse :
                /\ m.left = "released"
                /\ Rect_overlap(PadRect, [x |-> [start |-> m.abs_xy[1], end |-> m.abs_xy[1]],
                                          y |-> [start |-> m.abs_xy[2], end |-> m.abs_xy[2]]])
                     # NoneOpt)
              => pad.result.reacts # << >>

\* The visits of the traversal log the crop stack as the loop body found it
\* (before), as the pops left it (popped_to) and the entries pushed at its end.

\* a is a depth parent of idx, however far up.
IsAncestor(a, idx) ==
    \E k \in 1 .. Len(depth_parent_recursion(graph, idx)) :
        depth_parent_recursion(graph, idx)[k] = a

\* C21: visiting a widget pops entries off the top of the crop stack until
\* the stack is empty or the owner of its top is a depth parent of the widget:
\* what is left is a prefix of the stack, every entry popped has an owner that
\* is no depth parent of the widget, and every entry left has an owner that is.
C21_PopsDownToAnAncestor ==
    draw.pc # "idle" =>
        \A k \in 1 .. Len(draw.visits) :
            LET v == draw.visits[k]
            IN  /\ Len(v.popped_to) <= Len(v.before)
                /\ v.popped_to = SubSeq(v.before, 1, Len(v.popped_to))
                /\ \A j \in Len(v.popped_to) + 1 .. Len(v.before) :
                      ~IsAncestor(v.before[j].idx, v.idx)
                /\ \A j \in 1 .. Len(v.popped_to) : IsAncestor(v.popped_to[j].idx, v.idx)

\* C21 witness: widget 1 and its kid 2 both crop; visiting widget 3, another
\* kid of 1, popped the entry of 2 and stopped at the entry of 1.
C21_Witness ==
    /\ depth_order = << 1, 2, 3 >>
    /\ graph.parent[2] = Some(1)
    /\ graph.parent[3] = Some(1)
    /\ Len(draw.visits) = 3
    /\ Len(draw.visits[3].before) = 2
    /\ Len(draw.visits[3].popped_to) = 1
    /\ draw.visits[3].popped_to[1].idx = 1

\* C22: in a depth order where every parent precedes its descendants, the
\* crop stack a widget is drawn under is exactly as deep as the number of its
\* depth parents that crop their kids.
C22_StackDepthIsCropAncestors ==
    draw.pc # "idle" /\ Topological =>
        \A k \in 1 .. Len(draw.visits) :
            draw.visits[k].depth = Len(CropAncestors(draw.visits[k].idx))

----------------------------------------------------------------------------
(* Properties of the crop stack over widgets of every kind (checked under SpecKinds) *)

\* The entry a widget that crops its kids pushes when visited under a context.
PushOf(v) ==
    LET c == CHOOSE c \in widget(graph, v.idx) : TRUE
    IN  IF c.crop_kids
        THEN << [idx |-> v.idx, context |-> crop_context(v.context, c.kid_area.rect)] >>
        ELSE << >>

\* The context a visit found active: that of the top of the stack the pops
\* left, or the base context.
ActiveContext(v) ==
    IF v.popped_to = << >> THEN draw.context
    ELSE v.popped_to[Len(v.popped_to)].context

\* C23 as claimed: every widget visited that crops its kids pushes exactly one
\* entry, its index with the active context cropped to its kid area, whether it
\* was drawn or not and whatever its kind; a widget that does not pushes nothing.
C23_EveryCropWidgetPushesOnce ==
    draw.pc # "idle" =>
        \A k \in 1 .. Len(draw.visits) :
            /\ draw.visits[k].context = ActiveContext(draw.visits[k])
            /\ draw.visits[k].push = PushOf(draw.visits[k])

\* C23 amended: the same, for every widget whose drawing does not panic: seen
\* or not, and of a kind the dispatch knows or not; a widget whose drawing
\* panics pushes nothing, flagged or not. The stack after the visit is the
\* stack the pops left with the push on top.
C23_EveryCropWidgetPushesOnceUnlessPanic ==
    draw.pc # "idle" =>
        /\ \A k \in 1 .. Len(draw.visits) :
              LET v == draw.visits[k]
              IN  /\ v.context = ActiveContext(v)
                  /\ v.push = IF v.panic THEN << >> ELSE PushOf(v)
                  /\ k < Len(draw.visits) => draw.visits[k + 1].before = v.popped_to \o v.push
                  /\ k = Len(draw.visits) => draw.crop_stack = v.popped_to \o v.push
        /\ draw.visits = << >> => draw.crop_stack = << >>

\* C23 witness: widget 1, of a kind the dispatch does not know, and widget 2,
\* outside the window and not drawn, each pushed one entry; widget 3, which
\* does not crop its kids, pushed none.
C23_Witness ==
    /\ depth_order = << 1, 2, 3 >>
    /\ Len(draw.visits) = 3
    /\ KindOf(1).type = "other"
    /\ Len(draw.visits[1].push) = 1 /\ draw.visits[1].push[1].idx = 1
    /\ ~draw.visits[2].visible
    /\ Len(draw.visits[2].push) = 1 /\ draw.visits[2].push[1].idx = 2
    /\ draw.visits[3].push = << >>
    /\ ~draw.visits[3].panic

----------------------------------------------------------------------------
(* Further properties of crop_context (checked under SpecCrop) *)

\* C24: cropping a context that has a scissor to a rectangle that, in device
\* pixels, is not apart from it gives x = the greater of the left edges, y = the
\* greater of the lower-coordinate edges, w = the lesser of the right edges
\* less x, and h = the lesser of the far edges less y.
C24_OverlapGivesIntersection ==
    crop.pc = "twice" /\ ~Apart(CropDevice, ScissorOf(crop.context)) =>
        LET d == CropDevice
            r == ScissorOf(crop.context)
            res == ScissorOf(crop.result)
            right == IF d[1] + d[3] < r[1] + r[3] THEN d[1] + d[3] ELSE r[1] + r[3]
            far == IF d[2] + d[4] < r[2] + r[4] THEN d[2] + d[4] ELSE r[2] + r[4]
        IN  /\ res[1] = (IF d[1] > r[1] THEN d[1] ELSE r[1])
            /\ res[2] = (IF d[2] > r[2] THEN d[2] ELSE r[2])
            /\ res[3] = right - res[1]
            /\ res[4] = far - res[2]

\* C24 witness: the scissor is 2 by 2 at the origin and the rectangle 2 by 2
\* at (1, 1), so each cuts the other: the scissor returned is 1 by 1 at (1, 1).
C24_Witness ==
    /\ crop.pc = "twice"
    /\ ScissorOf(crop.context) = <<0, 0, 2, 2>>
    /\ CropDevice = <<1, 1, 2, 2>>
    /\ ScissorOf(crop.result) = <<1, 1, 1, 1>>

\* C25 as claimed: with the device size equal to the view size (W, H), no
\* scissor set before and nothing clamped, a rectangle with centre (x, y) and
\* size (w, h) gives scissor x = x - w/2 + W/2 and scissor y = H/2 - (y + h/2),
\* the distance from the top of the view down to the rectangle's top edge.
C25_ScissorOriginIsTopLeft ==
    /\ crop.pc = "once"
    /\ crop.context.viewport = NoneOpt
    /\ mapped_rect(crop.context, crop.rect)[1] >= 0
    /\ mapped_rect(crop.context, crop.rect)[2] >= 0
    =>
        LET xywh == Rect_x_y_w_h(crop.rect)
            view == get_view_size(crop.context)
            res == ScissorOf(crop.result)
        IN  /\ res[1] = xywh[1] - xywh[3] \div 2 + view[1] \div 2
            /\ res[2] = view[2] \div 2 - (xywh[2] + xywh[4] \div 2)
            /\ res[3] = xywh[3]
            /\ res[4] = xywh[4]

----------------------------------------------------------------------------
(* Properties of every iterator's cursor (checked under SpecIters) *)

\* C26: for Events and every filter over it, button filters included, the
\* cursor into the stream never moves backwards while the iterator lives and
\* never passes the end of the stream, and the items were yielded at strictly
\* increasing positions of the one cursor: no event of the stream is pulled
\* twice, and a filter over a filter does not scan the stream again.
C26_CursorOnlyAdvances ==
    /\ [](iter # NoIter =>
            /\ iter.events.pos \in 0 .. Len(events)
            /\ Len(at) = Len(out)
            /\ \A i \in 1 .. Len(at) :
                  /\ at[i] \in 1 .. iter.events.pos
                  /\ i > 1 => at[i - 1] < at[i])
    /\ [][iter # NoIter /\ iter' # NoIter =>
            /\ iter'.events.pos >= iter.events.pos
            /\ out' # out => iter'.events.pos > iter.events.pos]_vars

\* C26 witness: clicks().left() over two left clicks on its widget yielded both,
\* the first at position 1 and the second at position 2, and then ended with
\* its cursor at the end of the stream.
C26_Witness ==
    /\ iter # NoIter
    /\ iter.kind = "button_clicks"
    /\ iter.button = "Left"
    /\ Len(events) = MaxEvents
    /\ at = << 1, 2 >>
    /\ ended
    /\ iter.events.pos = Len(events)

\* C27: over a stream of n events, an iterator of any kind that its caller goes
\* on pulling from returns None, unless it is dropped first; it has then yielded
\* at most n items, and it returns None only with its cursor at the end of the
\* stream, so an event that is not delivered is passed over and the scan goes on.
C27_PullingEndsWithinStream ==
    /\ [](iter # NoIter =>
            /\ Len(out) <= Len(events)
            /\ ended => iter.events.pos = Len(events))
    /\ [](iter # NoIter => <>(ended \/ iter = NoIter))

\* C27 witness: events() for widget 1 over a text for widget 2 followed by a
\* text for widget 1 passed over the first, yielded the second and then
\* returned None.
C27_Witness ==
    /\ iter # NoIter
    /\ iter.kind = "events"
    /\ iter.events.idx = 1
    /\ Len(events) = MaxEvents
    /\ events[1].kind = "Text" /\ events[1].idx = Some(2)
    /\ events[2].kind = "Text" /\ events[2].idx = Some(1)
    /\ at = << 2 >>
    /\ ended

----------------------------------------------------------------------------
(* Two sequences from one Widget (checked under Spec) *)

\* A sequence e made by events() after k calls of next() over the stream: the
\* iterator it has become and the items it has yielded.
RECURSIVE PulledTimes(_, _, _)
PulledTimes(stream, e, k) ==
    IF k = 0 THEN [events |-> e, items |-> << >>]
    ELSE LET before == PulledTimes(stream, e, k - 1)
             r == Events_next(stream, before.events)
         IN  [events |-> r.events,
              items |-> IF r.item = NoneOpt THEN before.items
                        ELSE Append(before.items, CHOOSE x \in r.item : TRUE)]

\* The captor tracked after the first n events of the stream, from captor c at
\* the start: a capture sets it to the event's index, an uncapture clears it
\* only if the event's index is the captor.
RECURSIVE CaptorAfter(_, _, _, _)
CaptorAfter(c, n, captures, uncaptures) ==
    IF n = 0 THEN c
    ELSE LET was == CaptorAfter(c, n - 1, captures, uncaptures)
         IN  CASE events[n].kind = captures -> Some(events[n].idx)
               [] events[n].kind = uncaptures /\ was = Some(events[n].idx) -> NoneOpt
               [] OTHER -> was

StartStates ==
    { [widget_capturing_mouse |-> m, widget_capturing_keyboard |-> k] :
        m, k \in {NoneOpt} \cup { Some(w) : w \in Widgets } }

\* events() of widget w in a frame that started in capture state s.
EventsFrom(w, s) ==
    [Widget_events(w) EXCEPT !.capturing_mouse = s.widget_capturing_mouse,
                             !.capturing_keyboard = s.widget_capturing_keyboard]

\* A sequence without its capture and uncapture items or events.
RECURSIVE WithoutCaptures(_, _)
WithoutCaptures(seq, kinds) ==
    IF seq = << >> THEN << >>
    ELSE IF seq[1].kind \in kinds THEN WithoutCaptures(Tail(seq), kinds)
         ELSE << seq[1] >> \o WithoutCaptures(Tail(seq), kinds)

----------------------------------------------------------------------------
(* The u32 arithmetic of crop_context (checked under SpecWide) *)

\* a + b does not fit in a u32, and a - b is negative.
Carries(a, b) == a[1] + b[1] + (a[2] + b[2]) \div Half >= Half
Borrows(a, b) == u32_lt(a, b)

\* The sums x + w and y + h of a rectangle << x, y, w, h >> of u32 fit in a u32.
EdgesFit(q) == ~Carries(q[1], q[3]) /\ ~Carries(q[2], q[4])

----------------------------------------------------------------------------
(* The nesting of scissors (checked under SpecClip) *)

\* The pixels a scissor << x, y, w, h >> lets through, and whether it lets
\* the pixel p through.
Pixels(q) ==
    { << i, j >> : i \in q[1] .. q[1] + q[3] - 1, j \in q[2] .. q[2] + q[4] - 1 }
LetsThrough(q, p) ==
    /\ q[1] <= p[1] /\ p[1] < q[1] + q[3]
    /\ q[2] <= p[2] /\ p[2] < q[2] + q[4]

\* The context a scissor narrows no further than the context beneath it: the
\* pixels it lets through are among those the one beneath lets through, if that
\* one has a scissor, and it lets none through if the one beneath lets none.
NestedIn(above, beneath) ==
    /\ above.scissor # NoneOpt
    /\ beneath.scissor # NoneOpt =>
          LET a == ScissorOf(above)
              b == ScissorOf(beneath)
          IN  /\ \A p \in Pixels(a) : LetsThrough(b, p)
              /\ (b[3] = 0 \/ b[4] = 0) => (a[3] = 0 \/ a[4] = 0)

\* C31: throughout a traversal every entry of the crop stack has a scissor whose
\* pixels are among those of the entry beneath it, the lowest entry's among those
\* of the base context's scissor if it has one, and an entry above one that is 0
\* wide or 0 high lets no pixel through; the same holds of the context
\* crop_context returns against the context it was given.
C31_ScissorsOnlyNarrow ==
    /\ draw.pc # "idle" =>
          \A k \in 1 .. Len(draw.crop_stack) :
              NestedIn(draw.crop_stack[k].context,
                       IF k = 1 THEN draw.context ELSE draw.crop_stack[k - 1].context)
    /\ crop.pc \in {"once", "twice"} => NestedIn(crop.result, crop.context)

\* C31 witness: under a base scissor, widget 1 crops to its kid area, a part
\* of the base scissor, and widget 3 inside it crops to a kid area that only
\* touches that of widget 1: its entry, above that of widget 1, is 0 by 0.
C31_Witness ==
    /\ draw.pc # "idle"
    /\ draw.context.scissor # NoneOpt
    /\ Len(draw.crop_stack) = 2
    /\ draw.crop_stack[1].idx = 1
    /\ draw.crop_stack[2].idx = 3
    /\ ScissorOf(draw.crop_stack[1].context) = << 1, 1, 2, 2 >>
    /\ ScissorOf(draw.crop_stack[2].context)[3] = 0

====
